---- MODULE Spec2Model ----
(***************************************************************************)
(* Model of the bosminer hashchain controller.                             *)
(*                                                                         *)
(* bosminer-antminer/src/monitor.rs: the per-chain state machine, the      *)
(* fan/temperature decision function and the monitor's control tick.       *)
(* bosminer-am1-s9/src/lib.rs: the hashchain Manager, its leases           *)
(* (StoppedChain, RunningChain), the retrying start, stop and the preheat  *)
(* wait.                                                                   *)
(* bosminer-am1-s9/src/hashchain.rs: hashboard reset and chip enumeration, *)
(* PLL programming, the work-tx and the solution-rx task.                  *)
(*                                                                         *)
(* Time is in seconds.  Temperatures (f32 in the source) are integers in   *)
(* degrees Celsius.                                                        *)
(***************************************************************************)
EXTENDS Integers, Sequences, FiniteSets, TLC

VARIABLES
    \* ---- inputs and result of one call of ControlDecision::decide
    d_config,      \* config: &Config
    d_fans,        \* num_fans_running: usize
    d_temp,        \* temp: Temperature
    d_candidate,   \* the local decision_explained of decide (None: not produced)
    d_result,      \* the returned ControlDecisionExplained (None: not called yet)
    \* ---- one ChainState driven by messages and timer ticks
    c_state,       \* the ChainState
    c_now,         \* Instant::now()
    c_prev,        \* the ChainState before the last operation on it
    c_op,          \* the last operation: its kind, its `now`, its message
    c_msgs,        \* the kinds of the messages delivered so far, in order
    c_timed_out,   \* some tick has changed the state
    c_warm,        \* the last result of is_warming_up
    \* ---- the Monitor, its tick task and its termination handler
    chains,            \* inner.chains: the ChainState of each registered chain
    inner_config,      \* inner.config
    current_fan_speed, \* inner.current_fan_speed, the last speed that was set
    pid_limits,        \* inner.pid: the limits in force
    failure_state,     \* inner.failure_state
    status,            \* the last Status broadcast on status_sender
    inner_lock,        \* who holds the inner mutex
    clock,             \* Instant::now()
    tick_pc,           \* where tick_task is
    tick_due,          \* the instant the pending delay_for of tick_task ends
    tick_i,            \* do_tick: index of the next chain of the loop
    temperature,       \* do_tick: local temperature
    miner_warming_up,  \* do_tick: local miner_warming_up
    shutdown_reason,   \* the reason of the last Monitor::shutdown (logged)
    halt_sent,         \* the application halt has been broadcast
    handler_pc,        \* where the "monitor termination" halt handler is
    \* ---- one Manager, the tasks that own its leases and its halt handler
    owned_by,          \* Manager.owned_by
    hash_chain,        \* inner.hash_chain: None or Some(the HashChain)
    manager_lock,      \* who holds the Manager.inner mutex
    monitor_tx,        \* Manager.monitor_tx: the last message sent on it
    miner_halt,        \* the miner halt has been broadcast
    mgr_pc,            \* where each task is
    mgr_chain,         \* each task's local hash_chain (attempt_start_chain, stop_chain)
    lease,             \* the lease each owner task holds: "None", "Stopped", "Running"
    tries_left,        \* StoppedChain::start: tries_left of each owner's call
    attempts,          \* the attempts of each owner's current start call, in order
                       \* (the error is kept for the last one only)
    delays,            \* the delay_for(ENUM_RETRY_DELAY) completed in that call
    start_calls,       \* the calls of StoppedChain::start made so far
    mgr_result,        \* what each owner's last call returned
    \* ---- RunningChain::wait_for_preheat and the monitor's status channel
    preheat_config,    \* the monitor's Config, part of every Status
    watch_value,       \* the value of the status watch channel: Option<Status>
    watch_unseen,      \* status_receiver (the clone) has not yet seen that value
    publishing,        \* the monitor's tick task is running
    next_publish,      \* the instant of the monitor's next status broadcast
    preheat_clock,     \* Instant::now()
    preheat_pc,        \* where wait_for_preheat is
    preheat_started,   \* wait_for_preheat: local started
    \* ---- HashChain::reset_and_enumerate_and_init and the hashboard
    ip_core_enabled,   \* common_io: the FPGA IP core is enabled
    in_reset,          \* reset_pin: the hashboard is held in reset
    voltage_enabled,   \* voltage_ctrl: the hashboard is powered
    init_pc,           \* where reset_and_enumerate_and_init is
    init_accept,       \* its argument accept_less_chips
    responses,         \* Option: chip revisions answered to the enumeration read
    chip_count,        \* HashChain.chip_count
    init_log,          \* hardware operations and chip commands, in order
    init_result,       \* what reset_and_enumerate_and_init returned
    \* ---- HashChain::set_pll and the PLL registers of the chips
    pll_chip_count,    \* HashChain.chip_count of the running chain
    cur_frequency,     \* HashChain.frequency: the persisted vector
    chip_pll,          \* per chip: Option, the PLL last written to its register
    work_time_freq,    \* the frequency WORK_TIME was last computed for
    pll_request,       \* Option: the argument of the last set_pll call
    pll_calls,         \* number of set_pll calls made
    pll_failed,        \* some set_pll call returned Err
    \* ---- send_init_work, work_tx_task, solution_rx_task and the registry
    registry,          \* WorkRegistry: work_id -> Option<WorkItem>
    next_work_id,      \* WorkRegistry: the id the next store_work assigns
    tx_fifo,           \* number of work items waiting in the TX FIFO
    tx_last,           \* Option: the (work, work_id) last given to send_work
    tx_sent,           \* number of send_work calls
    init_stored,       \* number of store_work(.., true) calls
    work_pc,           \* where send_init_work / work_tx_task is
    tx_work,           \* local work
    tx_work_id,        \* local work_id
    generated,         \* number of work items the generator has produced
    rx_count,          \* number of solutions received from the RX FIFO
    rx_last,           \* Option: the solution last received
    valid,             \* counter: add_valid calls
    errors,            \* counter: add_error calls
    forwarded,         \* the solutions given to solution_sender.send
    resent,            \* the solutions given to solution_sender.send again
    counter_core,      \* Option: the core of the last add_valid / add_error
    \* ---- the clients HashChain::start spawns on the chain's halt context
    client_pc,         \* where each spawned task is
    chain_halt,        \* the chain's halt: "none", "sent" or "done"
    \* ---- HashChain::monitor_watchdog_temp_task
    wd_pc,             \* the `.await` (or statement) the task is at
    last_max_temp,     \* last_max_temp: Option<f32>
    try_again,         \* try_again
    error_counter,     \* error_counter, in units of 1/ERROR_ONE
    tick_reads,        \* sensor reads since the last heartbeat (history)
    ticks,             \* heartbeats sent by the sensor loop (history)
    waited,            \* ms slept since the last heartbeat or loop entry
    sent_now,          \* Option: the monitor message the last step sent
    \* ---- Monitor::do_tick over given chains: the aggregation
    agg_chains,        \* inner.chains: the ChainState of each chain
    agg_now,           \* Instant::now()
    agg_i,             \* index of the next chain of the loop
    agg_temperature,   \* local temperature
    agg_seen,          \* what get_temperature returned, in order (history)
    agg_fed,           \* Option: the temperature passed to decide
    \* ---- one call of utils::calc_baud_clock_div
    baud_rate,         \* baud_rate: usize
    base_clock_hz,     \* base_clock_hz: usize
    base_clock_div,    \* base_clock_div: usize
    baud_result,       \* Option: what the call ended in
    \* ---- one call of Hashboard::summary_temperature
    hashboard,         \* Hashboard(SensorResult)
    summary,           \* Option: the monitor::Temperature returned
    \* ---- AsyncI2cDev and its serve_requests thread
    i2c_request_tx,    \* BOOLEAN: some clone of AsyncI2cDev is alive
    i2c_request_rx,    \* Seq: the requests in the unbounded channel
    i2c_pc,            \* where serve_requests is
    i2c_request,       \* Option: the request serve_requests took
    i2c_bus,           \* Seq: history of what was done on the controller
    i2c_reply_rx,      \* request id -> state of its oneshot receiver
    i2c_reply_sent,    \* request id -> number of reply.send calls
    i2c_task,          \* task -> what the requester does
    i2c_sent,          \* number of requests enqueued so far
    \* ---- the locks of the monitor and the tasks that take them
    mon_inner,         \* who holds Monitor.inner
    mon_chain,         \* chain -> who holds the chain's mutex
    mon_tick_pc,       \* where tick_task is
    mon_tick_i,        \* do_tick: the chain the loop is at
    mon_recv_pc,       \* chain -> where its recv_task is
    mon_term_pc,       \* where termination_handler is
    mon_halt           \* the miner halt has been broadcast

dvars == <<d_config, d_fans, d_temp, d_candidate, d_result>>
cvars == <<c_state, c_now, c_prev, c_op, c_msgs, c_timed_out, c_warm>>
innervars == <<chains, inner_config, current_fan_speed, pid_limits, failure_state>>
tickvars == <<tick_pc, tick_due, tick_i, temperature, miner_warming_up>>
mvars == <<innervars, tickvars, status, inner_lock, clock, shutdown_reason,
           halt_sent, handler_pc>>
gvars == <<owned_by, hash_chain, manager_lock, monitor_tx, miner_halt, mgr_pc, mgr_chain, lease, tries_left, attempts, delays,
           start_calls, mgr_result>>
pvars == <<preheat_config, watch_value, watch_unseen, publishing, next_publish,
           preheat_clock, preheat_pc, preheat_started>>
ivars == <<ip_core_enabled, in_reset, voltage_enabled, init_pc, init_accept,
           responses, chip_count, init_log, init_result>>
fvars == <<pll_chip_count, cur_frequency, chip_pll, work_time_freq,
           pll_request, pll_calls, pll_failed>>
wvars == <<registry, next_work_id, tx_fifo, tx_last, tx_sent, init_stored,
           work_pc, tx_work, tx_work_id, generated, rx_count, rx_last, valid,
           errors, forwarded, resent, counter_core>>
hvars == <<client_pc, chain_halt>>
tvars ==
    <<wd_pc, last_max_temp, try_again, error_counter, tick_reads, ticks,
      waited, sent_now>>
avars == <<agg_chains, agg_now, agg_i, agg_temperature, agg_seen, agg_fed>>
bvars == <<baud_rate, base_clock_hz, base_clock_div, baud_result>>
svars == <<hashboard, summary>>
xvars ==
    <<i2c_request_tx, i2c_request_rx, i2c_pc, i2c_request, i2c_bus,
      i2c_reply_rx, i2c_reply_sent, i2c_task, i2c_sent>>
kvars ==
    <<mon_inner, mon_chain, mon_tick_pc, mon_tick_i, mon_recv_pc,
      mon_term_pc, mon_halt>>
uvars == <<bvars, svars, xvars, kvars>>
vars ==
    <<dvars, cvars, mvars, gvars, pvars, ivars, fvars, wvars, hvars, tvars,
      avars, uvars>>

\* the variables an action of one part of the model leaves alone
not_dvars == <<cvars, mvars, gvars, pvars, ivars, fvars, wvars, hvars, tvars, avars, uvars>>
not_cvars == <<dvars, mvars, gvars, pvars, ivars, fvars, wvars, hvars, tvars, avars, uvars>>
not_mvars == <<dvars, cvars, gvars, pvars, ivars, fvars, wvars, hvars, tvars, avars, uvars>>
not_gvars == <<dvars, cvars, mvars, pvars, ivars, fvars, wvars, hvars, tvars, avars, uvars>>
not_pvars == <<dvars, cvars, mvars, gvars, ivars, fvars, wvars, hvars, tvars, avars, uvars>>
not_ivars == <<dvars, cvars, mvars, gvars, pvars, fvars, wvars, hvars, tvars, avars, uvars>>
not_fvars == <<dvars, cvars, mvars, gvars, pvars, ivars, wvars, hvars, tvars, avars, uvars>>
not_wvars == <<dvars, cvars, mvars, gvars, pvars, ivars, fvars, hvars, tvars, avars, uvars>>
not_hvars == <<dvars, cvars, mvars, gvars, pvars, ivars, fvars, wvars, tvars, avars, uvars>>
not_tvars == <<dvars, cvars, mvars, gvars, pvars, ivars, fvars, wvars, hvars, avars, uvars>>
not_avars == <<dvars, cvars, mvars, gvars, pvars, ivars, fvars, wvars, hvars, tvars, uvars>>
oldervars == <<dvars, cvars, mvars, gvars, pvars, ivars, fvars, wvars, hvars, tvars, avars>>
not_bvars == <<oldervars, svars, xvars, kvars>>
not_svars == <<oldervars, bvars, xvars, kvars>>
not_xvars == <<oldervars, bvars, svars, kvars>>
not_kvars == <<oldervars, bvars, svars, xvars>>

(***************************************************************************)
(* Option<T>                                                               *)
(***************************************************************************)
None == [some |-> FALSE]
Some(v) == [some |-> TRUE, val |-> v]

(***************************************************************************)
(* Constants of monitor.rs (seconds)                                       *)
(***************************************************************************)
START_TIMEOUT == 180
RUN_UPDATE_TIMEOUT == 20
TICK_LENGTH == 5
WARM_UP_PERIOD == 90

(***************************************************************************)
(* fan::Speed: a duty cycle in percent                                     *)
(***************************************************************************)
STOPPED == 0
FULL_SPEED == 100

(***************************************************************************)
(* enum Temperature                                                        *)
(***************************************************************************)
Unknown == [tag |-> "Unknown"]
Ok(t) == [tag |-> "Ok", t |-> t]

(***************************************************************************)
(* enum ControlDecision and struct ControlDecisionExplained                *)
(***************************************************************************)
Shutdown == [kind |-> "Shutdown"]
UseFixedSpeed(speed) == [kind |-> "UseFixedSpeed", speed |-> speed]
UsePid(target_temp, input_temp) ==
    [kind |-> "UsePid", target_temp |-> target_temp, input_temp |-> input_temp]
Nothing == [kind |-> "Nothing"]

Explained(decision, reason, temperature_status) ==
    [decision |-> decision, reason |-> reason,
     temperature_status |-> temperature_status]

(***************************************************************************)
(* enum FanControlMode, struct FanControlConfig, TempControlConfig, Config *)
(***************************************************************************)
FixedSpeed(speed) == [kind |-> "FixedSpeed", speed |-> speed]
TargetTemperature(t) == [kind |-> "TargetTemperature", target |-> t]

FanControlConfig(mode, min_fans) == [mode |-> mode, min_fans |-> min_fans]
TempControlConfig(dangerous_temp, hot_temp) ==
    [dangerous_temp |-> dangerous_temp, hot_temp |-> hot_temp]
Config(fan_config, temp_config, fans_on_while_warming_up) ==
    [fan_config |-> fan_config, temp_config |-> temp_config,
     fans_on_while_warming_up |-> fans_on_while_warming_up]

(***************************************************************************)
(* ControlDecision::decide_fan_control: both fan and temp control enabled  *)
(***************************************************************************)
\* mutated: full speed only above hot_temp
decide_fan_control_above_hot(fan_config, temp_config, temp) ==
    IF temp = Unknown
    THEN Explained(UseFixedSpeed(FULL_SPEED), "unknown temperature", None)
    ELSE IF fan_config.mode.kind = "FixedSpeed"
    THEN Explained(UseFixedSpeed(fan_config.mode.speed), "user defined fan",
                   Some("Normal"))
    ELSE IF temp.t > temp_config.hot_temp
    THEN Explained(UseFixedSpeed(FULL_SPEED), "above HOT", Some("Hot"))
    ELSE Explained(UsePid(fan_config.mode.target, temp.t),
                   "automatic fan control", Some("Normal"))

decide_fan_control(fan_config, temp_config, temp) ==
    IF temp = Unknown
    THEN Explained(UseFixedSpeed(FULL_SPEED), "unknown temperature", None)
    ELSE IF fan_config.mode.kind = "FixedSpeed"
    THEN Explained(UseFixedSpeed(fan_config.mode.speed), "user defined fan",
                   Some("Normal"))
    ELSE IF temp.tag = "Unknown"
    THEN Explained([kind |-> "Panic"], "BUG", None)
    ELSE IF temp.t >= temp_config.hot_temp
    THEN Explained(UseFixedSpeed(FULL_SPEED), "above HOT", Some("Hot"))
    ELSE Explained(UsePid(fan_config.mode.target, temp.t), "automatic fan control",
                   Some("Normal"))

(***************************************************************************)
(* ControlDecision::decide_fan_control_notemp: temp control disabled       *)
(***************************************************************************)
\* mutated: without temp control the fans always run at full speed
decide_fan_control_notemp_full(fan_config) ==
    Explained(UseFixedSpeed(FULL_SPEED), "wrong configuration", None)

decide_fan_control_notemp(fan_config) ==
    IF fan_config.mode.kind = "FixedSpeed"
    THEN Explained(UseFixedSpeed(fan_config.mode.speed), "user defined", None)
    ELSE Explained(UseFixedSpeed(FULL_SPEED), "wrong configuration", None)

(***************************************************************************)
(* decide, section TEMP_DANGER: does the dangerous-temperature rule fire?  *)
(***************************************************************************)
temp_danger_gt(config, temp) ==
    /\ config.temp_config.some
    /\ temp.tag = "Ok"
    /\ temp.t > config.temp_config.val.dangerous_temp

temp_danger(config, temp) ==
    /\ config.temp_config.some
    /\ temp.tag = "Ok"
    /\ temp.t >= config.temp_config.val.dangerous_temp

(***************************************************************************)
(* decide: the candidate fan action (the local decision_explained)         *)
(***************************************************************************)
fan_candidate(config, temp) ==
    IF config.temp_config.some
    THEN decide_fan_control(config.fan_config.val, config.temp_config.val, temp)
    ELSE decide_fan_control_notemp(config.fan_config.val)

(***************************************************************************)
(* decide, section FAN_DANGER: too few fans spin and the candidate is not  *)
(* the explicit stop                                                       *)
(***************************************************************************)
fan_danger_le(candidate, fan_config, num_fans_running) ==
    /\ candidate.decision # UseFixedSpeed(STOPPED)
    /\ num_fans_running <= fan_config.min_fans

fan_danger(candidate, fan_config, num_fans_running) ==
    /\ candidate.decision # UseFixedSpeed(STOPPED)
    /\ num_fans_running < fan_config.min_fans

(***************************************************************************)
(* ControlDecision::decide                                                 *)
(***************************************************************************)
\* mutated: disabled fan control is looked at before the temperature
decide_fans_first(config, num_fans_running, temp) ==
    IF ~config.fan_config.some
    THEN Explained(Nothing, "control disabled", None)
    ELSE IF temp_danger(config, temp)
    THEN Explained(Shutdown, "temperature above DANGEROUS", Some("Dangerous"))
    ELSE LET decision_explained == fan_candidate(config, temp)
         IN  IF fan_danger(decision_explained, config.fan_config.val,
                           num_fans_running)
             THEN Explained(Shutdown, "not enough fans", None)
             ELSE decision_explained

decide(config, num_fans_running, temp) ==
    IF temp_danger(config, temp)
    THEN Explained(Shutdown, "temperature above DANGEROUS", Some("Dangerous"))
    ELSE IF config.fan_config.some
    THEN LET decision_explained == fan_candidate(config, temp)
         IN  IF fan_danger(decision_explained, config.fan_config.val,
                           num_fans_running)
             THEN Explained(Shutdown, "not enough fans", None)
             ELSE decision_explained
    ELSE Explained(Nothing, "control disabled", None)


(***************************************************************************)
(* enum Message                                                            *)
(***************************************************************************)
MsgOn == [kind |-> "On"]
MsgRunning(temp_obj) == [kind |-> "Running", temp_obj |-> temp_obj]
MsgOff == [kind |-> "Off"]

(***************************************************************************)
(* enum ChainState                                                         *)
(***************************************************************************)
On(started) == [tag |-> "On", started |-> started]
Running(started, last_heartbeat, temp_obj) ==
    [tag |-> "Running", started |-> started,
     last_heartbeat |-> last_heartbeat, temp_obj |-> temp_obj]
Off == [tag |-> "Off"]
Broken(reason) == [tag |-> "Broken", reason |-> reason]

(***************************************************************************)
(* Instant::duration_since; instants are monotonic, so earlier <= self     *)
(***************************************************************************)
duration_since(self, earlier) == self - earlier

(***************************************************************************)
(* ChainState::bad_transition                                              *)
(***************************************************************************)
bad_transition_keeps(self) == self

bad_transition(self) == Broken("bad state transition")

(***************************************************************************)
(* ChainState::transition                                                  *)
(***************************************************************************)
transition_strict(self, now, message) ==
    CASE message.kind = "On" ->
            IF self.tag = "Off" THEN On(now) ELSE bad_transition(self)
      [] message.kind = "Running" ->
            IF self.tag \in {"Running", "On"}
            THEN Running(self.started, now, message.temp_obj)
            ELSE bad_transition(self)
      [] message.kind = "Off" ->
            IF self.tag = "Running" THEN Off ELSE bad_transition(self)

transition_restart(self, now, message) ==
    CASE message.kind = "On" ->
            IF self.tag = "Off" THEN On(now) ELSE bad_transition(self)
      [] message.kind = "Running" ->
            IF self.tag \in {"Running", "On"}
            THEN Running(now, now, message.temp_obj)
            ELSE bad_transition(self)
      [] message.kind = "Off" ->
            IF self.tag \in {"On", "Running"} THEN Off ELSE bad_transition(self)

transition(self, now, message) ==
    CASE message.kind = "On" ->
            IF self.tag = "Off" THEN On(now) ELSE bad_transition(self)
      [] message.kind = "Running" ->
            IF self.tag \in {"Running", "On"}
            THEN Running(self.started, now, message.temp_obj)
            ELSE bad_transition(self)
      [] message.kind = "Off" ->
            IF self.tag \in {"On", "Running"} THEN Off ELSE bad_transition(self)

(***************************************************************************)
(* ChainState::tick                                                        *)
(***************************************************************************)
tick_gt(self, now) ==
    CASE self.tag = "On" ->
            IF duration_since(now, self.started) > START_TIMEOUT
            THEN Broken("took too long to start") ELSE self
      [] self.tag = "Running" ->
            IF duration_since(now, self.last_heartbeat) > RUN_UPDATE_TIMEOUT
            THEN Broken("failed to set update in time") ELSE self
      [] OTHER -> self

tick(self, now) ==
    CASE self.tag = "On" ->
            IF duration_since(now, self.started) >= START_TIMEOUT
            THEN Broken("took too long to start") ELSE self
      [] self.tag = "Running" ->
            IF duration_since(now, self.last_heartbeat) >= RUN_UPDATE_TIMEOUT
            THEN Broken("failed to set update in time") ELSE self
      [] OTHER -> self

(***************************************************************************)
(* ChainState::get_temperature; a temp_obj is modelled by its summary      *)
(* temperature                                                             *)
(***************************************************************************)
get_temperature(self) ==
    IF self.tag = "Running" THEN self.temp_obj ELSE Unknown

(***************************************************************************)
(* ChainState::is_warming_up                                               *)
(***************************************************************************)
is_warming_up_hb(self, now) ==
    CASE self.tag = "On" -> TRUE
      [] self.tag = "Running" ->
            duration_since(now, self.last_heartbeat) <= WARM_UP_PERIOD
      [] OTHER -> FALSE

is_warming_up(self, now) ==
    CASE self.tag = "On" -> TRUE
      [] self.tag = "Running" ->
            duration_since(now, self.started) <= WARM_UP_PERIOD
      [] OTHER -> FALSE

(***************************************************************************)
(* Instants at which the clock is read: around each timeout                *)
(***************************************************************************)
Around(c) == {c - 1, c, c + 1}
Instants ==
    {0, 1} \cup Around(RUN_UPDATE_TIMEOUT) \cup Around(WARM_UP_PERIOD)
           \cup Around(START_TIMEOUT)

MaxMsgs == 4

MsgTemps == {Unknown, Ok(50)}
Messages == {MsgOn, MsgOff} \cup {MsgRunning(t) : t \in MsgTemps}

(***************************************************************************)
(* Inputs of decide that are enumerated                                    *)
(***************************************************************************)
MaxFans == 3

TempValues == {50, 79, 80, 95, 99, 100, 150}
Temperatures == {Unknown} \cup {Ok(t) : t \in TempValues}
Speeds == {STOPPED, 50, FULL_SPEED}
FanModes == {FixedSpeed(s) : s \in Speeds} \cup {TargetTemperature(75)}
FanConfigs == {FanControlConfig(m, n) : m \in FanModes, n \in 0..MaxFans}
TempConfigs == {TempControlConfig(100, 80)}
Configs ==
    {Config(f, t, TRUE) :
        f \in {None} \cup {Some(x) : x \in FanConfigs},
        t \in {None} \cup {Some(x) : x \in TempConfigs}}

(***************************************************************************)
(* The harness of each specification at rest                               *)
(***************************************************************************)
IdleDecide ==
    /\ d_config = Config(None, None, TRUE)
    /\ d_fans = 0
    /\ d_temp = Unknown
    /\ d_candidate = None
    /\ d_result = None

IdleChain ==
    /\ c_state = Off
    /\ c_now = 0
    /\ c_prev = Off
    /\ c_op = [kind |-> "none"]
    /\ c_msgs = <<>>
    /\ c_timed_out = FALSE
    /\ c_warm = FALSE

IdleMonitor ==
    /\ chains = <<>>
    /\ inner_config = Config(None, None, TRUE)
    /\ current_fan_speed = None
    /\ pid_limits = "normal"
    /\ failure_state = FALSE
    /\ status = None
    /\ inner_lock = "free"
    /\ clock = 0
    /\ tick_pc = "lock"
    /\ tick_due = 0
    /\ tick_i = 1
    /\ temperature = Unknown
    /\ miner_warming_up = FALSE
    /\ shutdown_reason = None
    /\ halt_sent = FALSE
    /\ handler_pc = "wait_for_halt"

\* the tasks that call Manager::acquire ("main": lib.rs:676) and the halt
\* handler spawned for the manager (lib.rs:666-669)
Owners == {"main", "api"}
Handler == "hashchain"
Tasks == Owners \cup {Handler}

NoResult == [op |-> "none"]

IdleManager ==
    /\ owned_by = None
    /\ hash_chain = None
    /\ manager_lock = "free"
    /\ monitor_tx = None
    /\ miner_halt = FALSE
    /\ mgr_pc = [t \in Tasks |-> IF t = Handler THEN "wait_for_halt" ELSE "idle"]
    /\ mgr_chain = [t \in Tasks |-> None]
    /\ lease = [p \in Owners |-> "None"]
    /\ tries_left = [p \in Owners |-> 0]
    /\ attempts = [p \in Owners |-> <<>>]
    /\ delays = [p \in Owners |-> 0]
    /\ start_calls = 0
    /\ mgr_result = [p \in Owners |-> NoResult]

IdlePreheat ==
    /\ preheat_config = Config(None, None, TRUE)
    /\ watch_value = None
    /\ watch_unseen = TRUE
    /\ publishing = TRUE
    /\ next_publish = 0
    /\ preheat_clock = 0
    /\ preheat_pc = "idle"
    /\ preheat_started = 0

IdleInit ==
    /\ ip_core_enabled = FALSE
    /\ in_reset = TRUE
    /\ voltage_enabled = FALSE
    /\ init_pc = "idle"
    /\ init_accept = FALSE
    /\ responses = None
    /\ chip_count = 0
    /\ init_log = <<>>
    /\ init_result = NoResult

IdlePll ==
    /\ pll_chip_count = 1
    /\ cur_frequency = <<0>>
    /\ chip_pll = <<None>>
    /\ work_time_freq = 0
    /\ pll_request = None
    /\ pll_calls = 0
    /\ pll_failed = FALSE

IdleWork ==
    /\ registry = <<>>
    /\ next_work_id = 0
    /\ tx_fifo = 0
    /\ tx_last = None
    /\ tx_sent = 0
    /\ init_stored = 0
    /\ work_pc = "idle"
    /\ tx_work = None
    /\ tx_work_id = 0
    /\ generated = 0
    /\ rx_count = 0
    /\ rx_last = None
    /\ valid = 0
    /\ errors = 0
    /\ forwarded = {}
    /\ resent = {}
    /\ counter_core = None

Clients == {"work-tx", "work-rx", "temperature monitor"}

IdleHalt ==
    /\ client_pc = [c \in Clients |-> "not spawned"]
    /\ chain_halt = "none"

IdleWatchdog ==
    /\ wd_pc = "not spawned"
    /\ last_max_temp = None
    /\ try_again = 0
    /\ error_counter = 0
    /\ tick_reads = 0
    /\ ticks = 0
    /\ waited = 0
    /\ sent_now = None

IdleAggregate ==
    /\ agg_chains = <<>>
    /\ agg_now = 0
    /\ agg_i = 1
    /\ agg_temperature = Unknown
    /\ agg_seen = <<>>
    /\ agg_fed = None

IdleBaud ==
    /\ baud_rate = 1
    /\ base_clock_hz = 1
    /\ base_clock_div = 1
    /\ baud_result = None

IdleSummary ==
    /\ hashboard = [tag |-> "NotInitialized"]
    /\ summary = None

MaxI2cRequests == 3
I2cTasks == {"t1", "t2"}
I2cIds == 1..MaxI2cRequests

IdleI2c ==
    /\ i2c_request_tx = FALSE
    /\ i2c_request_rx = <<>>
    /\ i2c_pc = "exit"
    /\ i2c_request = None
    /\ i2c_bus = <<>>
    /\ i2c_reply_rx = [id \in I2cIds |-> "none"]
    /\ i2c_reply_sent = [id \in I2cIds |-> 0]
    /\ i2c_task = [t \in I2cTasks |-> "idle"]
    /\ i2c_sent = 0

MaxLockChains == 2
LockChains == 1..MaxLockChains

IdleLocks ==
    /\ mon_inner = "free"
    /\ mon_chain = [i \in LockChains |-> "free"]
    /\ mon_tick_pc = "exited"
    /\ mon_tick_i = 1
    /\ mon_recv_pc = [i \in LockChains |-> "next"]
    /\ mon_term_pc = "done"
    /\ mon_halt = TRUE

\* the helpers at rest
IdleUtils == IdleBaud /\ IdleSummary /\ IdleI2c /\ IdleLocks

\* the hashboard side of the model at rest
IdleBoard ==
    /\ IdleManager /\ IdlePreheat /\ IdleInit /\ IdlePll /\ IdleWork
    /\ IdleHalt /\ IdleWatchdog /\ IdleAggregate /\ IdleUtils

\* everything but the helpers at rest
IdleOlder ==
    /\ IdleDecide /\ IdleChain /\ IdleMonitor /\ IdleManager /\ IdlePreheat
    /\ IdleInit /\ IdlePll /\ IdleWork /\ IdleHalt /\ IdleWatchdog /\ IdleAggregate

(***************************************************************************)
(* Specification SpecDecide: one call of decide on enumerated inputs       *)
(***************************************************************************)
InitDecide ==
    /\ d_config \in Configs
    /\ d_fans \in 0..MaxFans
    /\ d_temp \in Temperatures
    /\ d_candidate = None
    /\ d_result = None
    /\ IdleChain
    /\ IdleMonitor
    /\ IdleBoard

CallDecide ==
    /\ ~d_result.some
    /\ d_result' = Some(decide(d_config, d_fans, d_temp))
    /\ d_candidate' =
          IF ~temp_danger(d_config, d_temp) /\ d_config.fan_config.some
          THEN Some(fan_candidate(d_config, d_temp))
          ELSE None
    /\ UNCHANGED <<d_config, d_fans, d_temp, not_dvars>>

NextDecide == CallDecide

SpecDecide == InitDecide /\ [][NextDecide]_vars

(***************************************************************************)
(* Specification SpecChain: one chain, registered Off (Chain::new), driven *)
(* by the messages of Monitor::recv_task, by ChainState::tick and queried  *)
(* by is_warming_up, each at the instant the clock shows                   *)
(***************************************************************************)
InitChain == IdleDecide /\ IdleChain /\ IdleMonitor /\ IdleBoard

ClockAdvance ==
    /\ \E t \in Instants : t > c_now /\ c_now' = t
    /\ UNCHANGED <<c_state, c_prev, c_op, c_msgs, c_timed_out, c_warm, not_cvars>>

ChainRecv ==
    /\ Len(c_msgs) < MaxMsgs
    /\ \E message \in Messages :
          /\ c_state' = transition(c_state, c_now, message)
          /\ c_op' = [kind |-> "transition", now |-> c_now, message |-> message]
          /\ c_msgs' = Append(c_msgs, message.kind)
    /\ c_prev' = c_state
    /\ UNCHANGED <<c_now, c_timed_out, c_warm, not_cvars>>

ChainTick ==
    /\ c_state' = tick(c_state, c_now)
    /\ c_op' = [kind |-> "tick", now |-> c_now]
    /\ c_prev' = c_state
    /\ c_timed_out' = (c_timed_out \/ c_state' # c_state)
    /\ UNCHANGED <<c_now, c_msgs, c_warm, not_cvars>>

ChainIsWarmingUp ==
    /\ c_warm' = is_warming_up(c_state, c_now)
    /\ c_op' = [kind |-> "is_warming_up", now |-> c_now]
    /\ c_prev' = c_state
    /\ UNCHANGED <<c_state, c_now, c_msgs, c_timed_out, not_cvars>>

NextChain == ClockAdvance \/ ChainRecv \/ ChainTick \/ ChainIsWarmingUp

SpecChain == InitChain /\ [][NextChain]_vars

(***************************************************************************)
(* Temperature::max                                                        *)
(***************************************************************************)
\* mutated: the first known temperature wins
temperature_max_first(self, other) ==
    IF self.tag = "Unknown" THEN other ELSE self

temperature_max(self, other) ==
    IF self.tag = "Unknown" THEN other
    ELSE IF other.tag = "Unknown" THEN self
    ELSE Ok(IF self.t >= other.t THEN self.t ELSE other.t)

(***************************************************************************)
(* fan::pid::TempControl: the speeds update can return under each limits;  *)
(* warm-up limits have the higher minimum duty                             *)
(***************************************************************************)
pid_update(limits) ==
    IF limits = "warm_up" THEN {60, FULL_SPEED} ELSE {10, 60, FULL_SPEED}

(***************************************************************************)
(* Monitor::do_tick: `if let ChainState::Broken(reason) = chain.state`     *)
(***************************************************************************)
chain_is_broken_by_timeout(state) ==
    state.tag = "Broken" /\ state.reason # "bad state transition"

chain_is_broken(state) == state.tag = "Broken"

(***************************************************************************)
(* The monitor's enumerated inputs: configurations, instants, chains       *)
(***************************************************************************)
MaxChains == 2

MonitorConfigs ==
    {Config(None, None, TRUE),
     Config(Some(FanControlConfig(FixedSpeed(50), 1)), None, TRUE),
     Config(Some(FanControlConfig(TargetTemperature(75), 1)),
            Some(TempControlConfig(100, 80)), TRUE),
     Config(Some(FanControlConfig(TargetTemperature(75), 1)),
            Some(TempControlConfig(100, 80)), FALSE)}

\* the clock of the monitor is read at the start and once every timeout has run out
MonitorInstants == {0, START_TIMEOUT}

MonitorMessages == {MsgOn, MsgOff, MsgRunning(Ok(50)), MsgRunning(Ok(150))}

FanFeedbacks == {0, 1}

(***************************************************************************)
(* Monitor::new_and_start: the monitor as constructed, its termination     *)
(* handler waiting for the halt and its tick task about to run do_tick     *)
(***************************************************************************)
Init ==
    /\ IdleDecide
    /\ IdleChain
    /\ IdleBoard
    /\ chains = <<>>
    /\ inner_config \in MonitorConfigs
    /\ current_fan_speed = None
    /\ pid_limits = "normal"
    /\ failure_state = FALSE
    /\ status = None
    /\ inner_lock = "free"
    /\ clock = 0
    /\ tick_pc = "lock"
    /\ tick_due = 0
    /\ tick_i = 1
    /\ temperature = Unknown
    /\ miner_warming_up = FALSE
    /\ shutdown_reason = None
    /\ halt_sent = FALSE
    /\ handler_pc = "wait_for_halt"

(***************************************************************************)
(* Instant::now() is monotonic                                             *)
(***************************************************************************)
MonitorClock ==
    /\ \E t \in MonitorInstants : t > clock /\ clock' = t
    /\ UNCHANGED <<innervars, tickvars, status, inner_lock, shutdown_reason,
                   halt_sent, handler_pc, not_mvars>>

(***************************************************************************)
(* Monitor::register_hashchain                                             *)
(***************************************************************************)
RegisterHashchain ==
    /\ Len(chains) < MaxChains
    /\ inner_lock = "free"
    /\ chains' = Append(chains, Off)
    /\ UNCHANGED <<inner_config, current_fan_speed, pid_limits, failure_state,
                   tickvars, status, inner_lock, clock, shutdown_reason,
                   halt_sent, handler_pc, not_mvars>>

(***************************************************************************)
(* Monitor::recv_task: one message of one chain, under the chain's lock    *)
(***************************************************************************)
RecvTask ==
    /\ \E i \in 1..Len(chains), message \in MonitorMessages :
          chains' = [chains EXCEPT ![i] = transition(@, clock, message)]
    /\ UNCHANGED <<inner_config, current_fan_speed, pid_limits, failure_state,
                   tickvars, status, inner_lock, clock, shutdown_reason,
                   halt_sent, handler_pc, not_mvars>>

(***************************************************************************)
(* Monitor::shutdown: set failure_state, drop the inner guard, send_halt   *)
(***************************************************************************)
shutdown(reason) ==
    /\ failure_state' = TRUE
    /\ inner_lock' = "free"
    /\ halt_sent' = TRUE
    /\ shutdown_reason' = Some(reason)

(***************************************************************************)
(* Monitor::do_tick returns: its locals go out of scope                    *)
(***************************************************************************)
end_of_tick ==
    /\ tick_i' = 1
    /\ temperature' = Unknown
    /\ miner_warming_up' = FALSE

(***************************************************************************)
(* Monitor::tick_task / do_tick: resume after delay_for(TICK_LENGTH); a    *)
(* task at a suspension point when the halt is broadcast does not resume   *)
(***************************************************************************)
TickWake ==
    /\ tick_pc = "delay"
    /\ clock >= tick_due
    /\ ~halt_sent
    /\ tick_pc' = "lock"
    /\ tick_due' = 0
    /\ UNCHANGED <<innervars, tick_i, temperature, miner_warming_up,
                   status, inner_lock, clock, shutdown_reason, halt_sent,
                   handler_pc, not_mvars>>

(***************************************************************************)
(* Monitor::do_tick: self.inner.lock().await and the locals                *)
(***************************************************************************)
TickLock ==
    /\ tick_pc = "lock"
    /\ inner_lock = "free"
    /\ inner_lock' = "tick"
    /\ tick_pc' = "chains"
    /\ UNCHANGED <<innervars, tick_due, tick_i, temperature, miner_warming_up,
                   status, clock, shutdown_reason, halt_sent, handler_pc,
                   not_mvars>>

(***************************************************************************)
(* Monitor::do_tick: one round of the loop over inner.chains, under the    *)
(* chain's lock                                                            *)
(***************************************************************************)
TickChain ==
    /\ tick_pc = "chains"
    /\ tick_i <= Len(chains)
    /\ LET state == tick(chains[tick_i], clock)
       IN  /\ chains' = [chains EXCEPT ![tick_i] = state]
           /\ IF chain_is_broken(state)
              THEN /\ shutdown("chain is broken")
                   /\ tick_pc' = "send_halt"
                   /\ end_of_tick
              ELSE /\ temperature' =
                         temperature_max(temperature, get_temperature(state))
                   /\ miner_warming_up' =
                         (miner_warming_up \/ is_warming_up(state, clock))
                   /\ tick_i' = tick_i + 1
                   /\ UNCHANGED <<tick_pc, failure_state, inner_lock,
                                  halt_sent, shutdown_reason>>
    /\ UNCHANGED <<inner_config, current_fan_speed, pid_limits, status, clock,
                   tick_due, handler_pc, not_mvars>>

(***************************************************************************)
(* Monitor::do_tick, "Broadcast `Status`": the snapshot                    *)
(***************************************************************************)
monitor_status_unknown(fan_feedback, fan_speed, input_temperature, decision_explained, config) ==
    [fan_feedback |-> fan_feedback,
     fan_speed |-> fan_speed,
     input_temperature |-> Unknown,
     decision_explained |-> decision_explained,
     config |-> config]

monitor_status(fan_feedback, fan_speed, input_temperature, decision_explained, config) ==
    [fan_feedback |-> fan_feedback,
     fan_speed |-> fan_speed,
     input_temperature |-> input_temperature,
     decision_explained |-> decision_explained,
     config |-> config]

(***************************************************************************)
(* Monitor::do_tick, UsePid: set_warm_up_limits or set_normal_limits       *)
(***************************************************************************)
warm_up_limits_any(config, warming_up) == warming_up

warm_up_limits(config, warming_up) ==
    config.fans_on_while_warming_up /\ warming_up

(***************************************************************************)
(* Monitor::do_tick after the loop: read the fans, decide, act, broadcast  *)
(* the Status; then tick_task's delay_for(TICK_LENGTH)                     *)
(***************************************************************************)
TickDecide ==
    /\ tick_pc = "chains"
    /\ tick_i > Len(chains)
    /\ \E num_fans_running \in FanFeedbacks :
          LET decision_explained == decide(inner_config, num_fans_running, temperature)
              decision == decision_explained.decision
              limits == IF warm_up_limits(inner_config, miner_warming_up)
                        THEN "warm_up" ELSE "normal"
              publish ==
                  /\ status' = Some(monitor_status(num_fans_running,
                                                    current_fan_speed',
                                                    temperature,
                                                    decision_explained,
                                                    inner_config))
                  /\ inner_lock' = "free"
                  /\ tick_pc' = "delay"
                  /\ tick_due' = clock + TICK_LENGTH
                  /\ end_of_tick
                  /\ UNCHANGED <<failure_state, halt_sent, shutdown_reason>>
          IN  CASE decision.kind = "Shutdown" ->
                      /\ shutdown(decision_explained.reason)
                      /\ tick_pc' = "send_halt"
                      /\ end_of_tick
                      /\ UNCHANGED <<current_fan_speed, pid_limits, status,
                                     tick_due>>
                [] decision.kind = "UseFixedSpeed" ->
                      /\ current_fan_speed' = Some(decision.speed)
                      /\ UNCHANGED pid_limits
                      /\ publish
                [] decision.kind = "UsePid" ->
                      /\ pid_limits' = limits
                      /\ \E speed \in pid_update(limits) :
                            current_fan_speed' = Some(speed)
                      /\ publish
                [] decision.kind = "Nothing" ->
                      /\ UNCHANGED <<current_fan_speed, pid_limits>>
                      /\ publish
    /\ UNCHANGED <<chains, inner_config, clock, handler_pc, not_mvars>>

(***************************************************************************)
(* halt: the application halt is sent from outside the monitor             *)
(* (termination signal, exit of the miner)                                 *)
(***************************************************************************)
ExternalHalt ==
    /\ ~halt_sent
    /\ halt_sent' = TRUE
    /\ UNCHANGED <<innervars, tickvars, status, inner_lock, clock,
                   shutdown_reason, handler_pc, not_mvars>>

(***************************************************************************)
(* Monitor::termination_handler, run by the halt as a halt handler         *)
(***************************************************************************)
TerminationHandler ==
    /\ halt_sent
    /\ handler_pc = "wait_for_halt"
    /\ inner_lock = "free"
    /\ current_fan_speed' =
          Some(IF failure_state THEN FULL_SPEED ELSE STOPPED)
    /\ handler_pc' = "done"
    /\ UNCHANGED <<chains, inner_config, pid_limits, failure_state, tickvars, status,
                   inner_lock, clock, shutdown_reason, halt_sent, not_mvars>>

(***************************************************************************)
(* halt: the spawned tick task exits at a suspension point once halted     *)
(***************************************************************************)
TickHalted ==
    /\ halt_sent
    /\ tick_pc \in {"delay", "send_halt"}
    /\ tick_pc' = "exited"
    /\ tick_due' = 0
    /\ UNCHANGED <<innervars, tick_i, temperature, miner_warming_up,
                   status, inner_lock, clock, shutdown_reason, halt_sent,
                   handler_pc, not_mvars>>

\* every client of the monitor's halt context has acknowledged the halt
halt_done == halt_sent /\ handler_pc = "done" /\ tick_pc = "exited"

Next ==
    \/ MonitorClock
    \/ RegisterHashchain
    \/ RecvTask
    \/ TickWake
    \/ TickLock
    \/ TickChain
    \/ TickDecide
    \/ ExternalHalt
    \/ TerminationHandler
    \/ TickHalted

Spec == Init /\ [][Next]_vars

(***************************************************************************)
(* C1: decide returns Shutdown for every input in which temp_config is     *)
(* present and the temperature is Ok(t) with t >= dangerous_temp, whatever *)
(* the fan configuration and whatever num_fans_running is.                 *)
(***************************************************************************)
C1_DangerousTempShutsDown ==
    (/\ d_result.some
     /\ d_config.temp_config.some
     /\ d_temp.tag = "Ok"
     /\ d_temp.t >= d_config.temp_config.val.dangerous_temp)
    => d_result.val.decision = Shutdown

\* decide was called at exactly dangerous_temp, fans configured stopped,
\* all fans running
C1_Witness ==
    /\ d_result.some
    /\ d_config.temp_config.some
    /\ d_temp.tag = "Ok"
    /\ d_temp.t = d_config.temp_config.val.dangerous_temp
    /\ d_config.fan_config.some
    /\ d_config.fan_config.val.mode = FixedSpeed(STOPPED)
    /\ d_fans = MaxFans
    /\ d_result.val.decision = Shutdown

(***************************************************************************)
(* C2: whenever fan_config is present and decide produced a candidate fan  *)
(* action other than UseFixedSpeed(STOPPED), decide returns Shutdown if    *)
(* num_fans_running < min_fans and the candidate unchanged otherwise.      *)
(***************************************************************************)
C2_FanCheckOnCandidate ==
    (/\ d_result.some
     /\ d_config.fan_config.some
     /\ d_candidate.some
     /\ d_candidate.val.decision # UseFixedSpeed(STOPPED))
    => IF d_fans < d_config.fan_config.val.min_fans
       THEN d_result.val.decision = Shutdown
       ELSE d_result.val = d_candidate.val

\* exactly min_fans (> 0) fans run and the PID candidate is returned unchanged
C2_Witness ==
    /\ d_result.some
    /\ d_candidate.some
    /\ d_candidate.val.decision.kind = "UsePid"
    /\ d_config.fan_config.val.min_fans > 0
    /\ d_fans = d_config.fan_config.val.min_fans
    /\ d_result.val = d_candidate.val

(***************************************************************************)
(* C3: with fan mode FixedSpeed(STOPPED), for every temperature that is    *)
(* Unknown or below dangerous_temp, every temp_config and every            *)
(* num_fans_running, decide does not return Shutdown (the fan-count check  *)
(* is bypassed).                                                           *)
(***************************************************************************)
C3_StoppedFansBypassFanCheck ==
    (/\ d_result.some
     /\ d_config.fan_config.some
     /\ d_config.fan_config.val.mode = FixedSpeed(STOPPED)
     /\ ~(/\ d_config.temp_config.some
          /\ d_temp.tag = "Ok"
          /\ d_temp.t >= d_config.temp_config.val.dangerous_temp))
    => d_result.val.decision # Shutdown

(***************************************************************************)
(* C6: transition performs exactly these legal steps: (Off, On) -> On(now);*)
(* (On(s), Running) -> Running with started = s, last_heartbeat = now;     *)
(* (Running, Running) -> Running with started unchanged, last_heartbeat =  *)
(* now; (On, Off) -> Off; (Running, Off) -> Off.  A heartbeat never resets *)
(* the start time.                                                         *)
(***************************************************************************)
C6_LegalTransitions ==
    c_op.kind = "transition" =>
        LET m == c_op.message
            now == c_op.now
        IN  /\ (c_prev.tag = "Off" /\ m.kind = "On") => c_state = On(now)
            /\ (c_prev.tag \in {"On", "Running"} /\ m.kind = "Running") =>
                  /\ c_state.tag = "Running"
                  /\ c_state.started = c_prev.started
                  /\ c_state.last_heartbeat = now
                  /\ c_state.temp_obj = m.temp_obj
            /\ (c_prev.tag \in {"On", "Running"} /\ m.kind = "Off") =>
                  c_state = Off

\* a heartbeat arrived for a chain that has been running for a while
C6_Witness ==
    /\ c_op.kind = "transition"
    /\ c_op.message.kind = "Running"
    /\ c_prev.tag = "Running"
    /\ c_prev.started < c_prev.last_heartbeat
    /\ c_prev.last_heartbeat < c_op.now
    /\ c_state.tag = "Running"
    /\ c_state.started = c_prev.started
    /\ c_state.last_heartbeat = c_op.now

(***************************************************************************)
(* C7: every (state, message) pair outside the legal steps - (Off,Running),*)
(* (Off, Off), (On, On), (Running, On) and any message received in Broken  *)
(* - puts the chain in Broken, and Broken is absorbing: no message and no  *)
(* tick leaves it.                                                         *)
(***************************************************************************)
C7_IllegalIsBrokenForever ==
    /\ c_op.kind = "transition" =>
          LET m == c_op.message
          IN  (\/ c_prev.tag = "Off" /\ m.kind \in {"Running", "Off"}
               \/ c_prev.tag \in {"On", "Running"} /\ m.kind = "On"
               \/ c_prev.tag = "Broken")
              => c_state.tag = "Broken"
    /\ (c_op.kind \in {"transition", "tick"} /\ c_prev.tag = "Broken") =>
          c_state.tag = "Broken"

\* a chain broken by Off-in-Off then received On and stayed Broken
C7_Witness ==
    /\ Len(c_msgs) >= 2
    /\ c_msgs[1] = "Off"
    /\ c_op.kind = "transition"
    /\ c_op.message.kind = "On"
    /\ c_prev.tag = "Broken"
    /\ c_state.tag = "Broken"

(***************************************************************************)
(* C8: tick(now) changes the state if and only if the state is On(started) *)
(* with now - started >= START_TIMEOUT or Running with now - last_heartbeat*)
(* >= RUN_UPDATE_TIMEOUT, and then the new state is Broken; otherwise the  *)
(* state is left unchanged.                                                *)
(***************************************************************************)
C8_TickTimeouts ==
    c_op.kind = "tick" =>
        LET now == c_op.now
            expired ==
                \/ c_prev.tag = "On" /\ now - c_prev.started >= START_TIMEOUT
                \/ /\ c_prev.tag = "Running"
                   /\ now - c_prev.last_heartbeat >= RUN_UPDATE_TIMEOUT
        IN  IF expired
            THEN c_state.tag = "Broken" /\ c_state # c_prev
            ELSE c_state = c_prev

\* a tick exactly RUN_UPDATE_TIMEOUT after the last heartbeat broke the chain
C8_Witness ==
    /\ c_op.kind = "tick"
    /\ c_prev.tag = "Running"
    /\ c_op.now - c_prev.last_heartbeat = RUN_UPDATE_TIMEOUT
    /\ c_state.tag = "Broken"

(***************************************************************************)
(* The message patterns: is a sequence of message kinds a prefix of a word *)
(* of (On Running+ Off)* (strict) or of (On Running* Off)* ?               *)
(***************************************************************************)
RECURSIVE PatternRun(_, _, _)
PatternRun(kinds, at, strict) ==
    IF kinds = <<>> THEN TRUE
    ELSE LET k == Head(kinds)
             next ==
                CASE at = "off" /\ k = "On" -> "on"
                  [] at = "on" /\ k = "Running" -> "running"
                  [] at = "on" /\ k = "Off" /\ ~strict -> "off"
                  [] at = "running" /\ k = "Running" -> "running"
                  [] at = "running" /\ k = "Off" -> "off"
                  [] OTHER -> "violation"
         IN  next # "violation" /\ PatternRun(Tail(kinds), next, strict)

(***************************************************************************)
(* C9 as stated: a chain that starts in Off is driven to Broken by its     *)
(* messages if and only if they violate the pattern (On, then one or more  *)
(* Running, then Off) repeated.                                            *)
(***************************************************************************)
C9_StrictPatternIffNotBroken ==
    ~c_timed_out => (c_state.tag = "Broken" <=> ~PatternRun(c_msgs, "off", TRUE))

(***************************************************************************)
(* C9 amended: a chain that starts in Off is driven to Broken by its       *)
(* messages if and only if they violate the pattern (On, then zero or more *)
(* Running, then Off) repeated.                                            *)
(***************************************************************************)
C9_PatternIffNotBroken ==
    ~c_timed_out => (c_state.tag = "Broken" <=> ~PatternRun(c_msgs, "off", FALSE))

\* On directly followed by Off left the chain Off, and a later stray Off broke it
C9_Witness ==
    /\ ~c_timed_out
    /\ c_msgs = <<"On", "Off", "Off">>
    /\ c_prev = Off
    /\ c_state.tag = "Broken"

(***************************************************************************)
(* C10: is_warming_up(now) is true for On at every time, true for Running  *)
(* exactly when now - started <= WARM_UP_PERIOD, measured from the start   *)
(* time and not from the last heartbeat, and false for Off and Broken.     *)
(***************************************************************************)
C10_WarmingUp ==
    c_op.kind = "is_warming_up" =>
        c_warm = CASE c_prev.tag = "On" -> TRUE
                   [] c_prev.tag = "Running" ->
                        c_op.now - c_prev.started <= WARM_UP_PERIOD
                   [] c_prev.tag \in {"Off", "Broken"} -> FALSE

\* past the warm-up period since the start, although the last heartbeat is recent
C10_Witness ==
    /\ c_op.kind = "is_warming_up"
    /\ c_prev.tag = "Running"
    /\ c_op.now - c_prev.started > WARM_UP_PERIOD
    /\ c_op.now - c_prev.last_heartbeat < RUN_UPDATE_TIMEOUT
    /\ c_warm = FALSE

(***************************************************************************)
(* C4: in any control tick, when the tick has applied tick(now) to a       *)
(* registered chain and finds it Broken, the monitor sets failure_state    *)
(* and sends the application halt in that same step of the tick, whatever  *)
(* temperature it has aggregated and without reading the fans, and changes *)
(* no fan speed (and publishes no status): the tick ends there.            *)
(***************************************************************************)
C4_BrokenChainShutsDown ==
    [][(/\ tick_pc = "chains"
        /\ tick_i <= Len(chains)
        /\ (tick_pc' # tick_pc \/ tick_i' # tick_i)
        /\ chains'[tick_i].tag = "Broken")
       => (/\ failure_state'
           /\ halt_sent'
           /\ shutdown_reason' = Some("chain is broken")
           /\ tick_pc' = "send_halt"
           /\ current_fan_speed' = current_fan_speed
           /\ pid_limits' = pid_limits
           /\ status' = status)]_vars

\* the second chain timed out while the first reports a dangerous temperature
\* and the fans had been set by an earlier tick: shutdown, fan speed untouched
C4_Witness ==
    /\ Len(chains) = 2
    /\ chains[1].tag = "Running"
    /\ chains[1].temp_obj = Ok(150)
    /\ chains[2] = Broken("took too long to start")
    /\ tick_pc = "send_halt"
    /\ shutdown_reason = Some("chain is broken")
    /\ failure_state
    /\ halt_sent
    /\ handler_pc = "wait_for_halt"
    /\ current_fan_speed = Some(50)

(***************************************************************************)
(* C5: after a halt of the monitor's context has completed, the last fan   *)
(* speed commanded by the monitor is FULL_SPEED if the monitor declared    *)
(* the shutdown (failure_state) and STOPPED otherwise: no tick overrides   *)
(* the speed set by the termination handler.                               *)
(***************************************************************************)
C5_FanSpeedAfterHalt ==
    halt_done =>
        current_fan_speed = Some(IF failure_state THEN FULL_SPEED ELSE STOPPED)

(***************************************************************************)
(* The hashchain Manager (bosminer-am1-s9/src/lib.rs)                      *)
(***************************************************************************)
ENUM_RETRY_COUNT == 10

\* StoppedChain::start: `tries_left <= ENUM_RETRY_COUNT / 2`, the argument
\* accept_less_chips of attempt_start_chain
accept_less_chips_late(tries) == tries < ENUM_RETRY_COUNT \div 2

accept_less_chips(tries) == tries <= ENUM_RETRY_COUNT \div 2

\* StoppedChain::start: `if tries_left == 0`
no_tries_left_early(tries) == tries <= 1

no_tries_left(tries) == tries = 0

\* Manager::stop_chain: what follows each of its steps
stop_chain_off_first(step) ==
    CASE step = "stop_lock" -> "stop_off"
      [] step = "stop_off" -> "stop_halt"
      [] step = "stop_halt" -> "stop_return"

stop_chain_next(step) ==
    CASE step = "stop_lock" -> "stop_halt"
      [] step = "stop_halt" -> "stop_off"
      [] step = "stop_off" -> "stop_return"

\* the calls of StoppedChain::start in one behaviour
MaxStartCalls == 3

\* HashChain::new: a hashchain whose halt context has not been halted;
\* inner.start_count only numbers the starts and is left out
HashChain == [halted |-> FALSE]

\* send_halt on hash_chain.halt_sender has completed
halt_completed(chain) == [chain EXCEPT !.halted = TRUE]

\* what HashChain::init returns to attempt_start_chain
InitResults == {"Ok", "ChipEnumeration", "Io"}

\* the locals of a call of StoppedChain::start that has ended
end_of_start(p) ==
    /\ tries_left' = [tries_left EXCEPT ![p] = 0]
    /\ attempts' = [attempts EXCEPT ![p] = <<>>]
    /\ delays' = [delays EXCEPT ![p] = 0]

\* a task that panics unwinds: the lease it holds is dropped
\* (Drop for StoppedChain, Drop for RunningChain)
panic(t, message) ==
    /\ mgr_pc' = [mgr_pc EXCEPT ![t] = "panicked"]
    /\ mgr_chain' = [mgr_chain EXCEPT ![t] = None]
    /\ mgr_result' = [mgr_result EXCEPT ![t] = [op |-> "panic", message |-> message]]
    /\ lease' = [lease EXCEPT ![t] = "None"]
    /\ owned_by' = IF lease[t] # "None" THEN None ELSE owned_by
    /\ end_of_start(t)

(***************************************************************************)
(* Manager::acquire: the block that holds the owned_by mutex               *)
(***************************************************************************)
Acquire(p) ==
    /\ mgr_pc[p] = "idle"
    /\ lease[p] = "None"
    /\ IF owned_by.some
       THEN /\ mgr_result' = [mgr_result EXCEPT ![p] =
                                 [op |-> "acquire", ok |-> FALSE, err |-> owned_by.val]]
            /\ UNCHANGED <<owned_by, mgr_pc>>
       ELSE /\ owned_by' = Some(p)
            /\ mgr_pc' = [mgr_pc EXCEPT ![p] = "acquire_lock"]
            /\ UNCHANGED mgr_result
    /\ UNCHANGED <<hash_chain, manager_lock, monitor_tx, miner_halt, mgr_chain,
                   lease, tries_left, attempts, delays, start_calls, not_gvars>>

(***************************************************************************)
(* Manager::acquire: inner.lock().await and the lease that is returned     *)
(***************************************************************************)
AcquireLease(p) ==
    /\ mgr_pc[p] = "acquire_lock"
    /\ manager_lock = "free"
    /\ lease' = [lease EXCEPT ![p] = IF hash_chain.some THEN "Running" ELSE "Stopped"]
    /\ mgr_result' = [mgr_result EXCEPT ![p] =
                         [op |-> "acquire", ok |-> TRUE, lease |-> lease'[p]]]
    /\ mgr_pc' = [mgr_pc EXCEPT ![p] = "idle"]
    /\ UNCHANGED <<owned_by, hash_chain, manager_lock, monitor_tx, miner_halt,
                   mgr_chain, tries_left, attempts, delays, start_calls,
                   not_gvars>>

(***************************************************************************)
(* Drop for StoppedChain and for RunningChain: the owner lets its lease go *)
(***************************************************************************)
DropLease(p) ==
    /\ mgr_pc[p] = "idle"
    /\ lease[p] # "None"
    /\ lease' = [lease EXCEPT ![p] = "None"]
    /\ owned_by' = None
    /\ UNCHANGED <<hash_chain, manager_lock, monitor_tx, miner_halt, mgr_pc,
                   mgr_chain, tries_left, attempts, delays, start_calls,
                   mgr_result, not_gvars>>

(***************************************************************************)
(* StoppedChain::start: `let mut tries_left = ENUM_RETRY_COUNT`            *)
(***************************************************************************)
StartCall(p) ==
    /\ mgr_pc[p] = "idle"
    /\ lease[p] = "Stopped"
    /\ start_calls < MaxStartCalls
    /\ start_calls' = start_calls + 1
    /\ tries_left' = [tries_left EXCEPT ![p] = ENUM_RETRY_COUNT]
    /\ attempts' = [attempts EXCEPT ![p] = <<>>]
    /\ delays' = [delays EXCEPT ![p] = 0]
    /\ mgr_pc' = [mgr_pc EXCEPT ![p] = "attempt_lock"]
    /\ UNCHANGED <<owned_by, hash_chain, manager_lock, monitor_tx, miner_halt,
                   mgr_chain, lease, mgr_result, not_gvars>>

(***************************************************************************)
(* Manager::attempt_start_chain up to hash_chain.init(..).await: lock      *)
(* inner, send On, assert that no hashchain runs, count the start, make    *)
(* the HashChain                                                           *)
(***************************************************************************)
AttemptStart(p) ==
    /\ mgr_pc[p] = "attempt_lock"
    /\ manager_lock = "free"
    /\ monitor_tx' = Some(MsgOn)
    /\ IF hash_chain.some
       THEN /\ panic(p, "assertion failed: inner.hash_chain.is_none()")
            /\ UNCHANGED manager_lock
       ELSE /\ mgr_chain' = [mgr_chain EXCEPT ![p] = Some(HashChain)]
            /\ attempts' = [attempts EXCEPT ![p] =
                  Append([i \in DOMAIN @ |-> [@[i] EXCEPT !.result = "Err"]],
                         [accept_less_chips |-> accept_less_chips(tries_left[p]),
                          after_delays |-> delays[p],
                          result |-> "pending"])]
            /\ manager_lock' = p
            /\ mgr_pc' = [mgr_pc EXCEPT ![p] = "init"]
            /\ UNCHANGED <<mgr_result, lease, owned_by, tries_left, delays>>
    /\ UNCHANGED <<hash_chain, miner_halt, start_calls, not_gvars>>

(***************************************************************************)
(* Manager::attempt_start_chain: hash_chain.init(..) returns.  On Ok the   *)
(* hashchain is started, remembered in inner.hash_chain and Ok(()) is      *)
(* returned (inner is unlocked)                                            *)
(***************************************************************************)
InitReturns(p) ==
    /\ mgr_pc[p] = "init"
    /\ \E r \in InitResults :
          /\ attempts' = [attempts EXCEPT ![p][Len(attempts[p])].result = r]
          /\ IF r = "Ok"
             THEN /\ hash_chain' = mgr_chain[p]
                  /\ mgr_chain' = [mgr_chain EXCEPT ![p] = None]
                  /\ manager_lock' = "free"
                  /\ mgr_pc' = [mgr_pc EXCEPT ![p] = "start_ok"]
             ELSE /\ mgr_pc' = [mgr_pc EXCEPT ![p] = "fail_halt"]
                  /\ UNCHANGED <<hash_chain, mgr_chain, manager_lock>>
    /\ UNCHANGED <<owned_by, monitor_tx, miner_halt, lease, tries_left, delays,
                   start_calls, mgr_result, not_gvars>>

(***************************************************************************)
(* Manager::attempt_start_chain, init failed:                              *)
(* hash_chain.halt_sender.clone().send_halt().await completes              *)
(***************************************************************************)
FailHalt(p) ==
    /\ mgr_pc[p] = "fail_halt"
    /\ mgr_chain' = [mgr_chain EXCEPT ![p] = Some(halt_completed(@.val))]
    /\ mgr_pc' = [mgr_pc EXCEPT ![p] = "fail_off"]
    /\ UNCHANGED <<owned_by, hash_chain, manager_lock, monitor_tx, miner_halt,
                   lease, tries_left, attempts, delays, start_calls,
                   mgr_result, not_gvars>>

(***************************************************************************)
(* Manager::attempt_start_chain, init failed: send Off and return Err(e);  *)
(* StoppedChain::start: return Err((self, e)) when no tries are left, else *)
(* count the try and go to delay_for(ENUM_RETRY_DELAY)                     *)
(***************************************************************************)
FailOff(p) ==
    /\ mgr_pc[p] = "fail_off"
    /\ monitor_tx' = Some(MsgOff)
    /\ manager_lock' = "free"
    /\ mgr_chain' = [mgr_chain EXCEPT ![p] = None]
    /\ IF no_tries_left(tries_left[p])
       THEN /\ mgr_result' = [mgr_result EXCEPT ![p] =
                  [op |-> "start", ok |-> FALSE,
                   err |-> attempts[p][Len(attempts[p])].result,
                   attempts |-> Len(attempts[p])]]
            /\ mgr_pc' = [mgr_pc EXCEPT ![p] = "idle"]
            /\ end_of_start(p)
       ELSE /\ tries_left' = [tries_left EXCEPT ![p] = @ - 1]
            /\ mgr_pc' = [mgr_pc EXCEPT ![p] = "delay"]
            /\ UNCHANGED <<mgr_result, attempts, delays>>
    /\ UNCHANGED <<owned_by, hash_chain, miner_halt, lease, start_calls,
                   not_gvars>>

(***************************************************************************)
(* StoppedChain::start: delay_for(ENUM_RETRY_DELAY).await is over          *)
(***************************************************************************)
RetryDelay(p) ==
    /\ mgr_pc[p] = "delay"
    /\ delays' = [delays EXCEPT ![p] = @ + 1]
    /\ mgr_pc' = [mgr_pc EXCEPT ![p] = "attempt_lock"]
    /\ UNCHANGED <<owned_by, hash_chain, manager_lock, monitor_tx, miner_halt,
                   mgr_chain, lease, tries_left, attempts, start_calls,
                   mgr_result, not_gvars>>

(***************************************************************************)
(* StoppedChain::start, Ok(_): self.manager.inner.lock().await,            *)
(* RunningChain::from_manager and the return, at which `self`, the         *)
(* StoppedChain, goes out of scope: its Drop takes owned_by                *)
(***************************************************************************)
StartOk(p) ==
    /\ mgr_pc[p] = "start_ok"
    /\ manager_lock = "free"
    /\ IF hash_chain.some
       THEN /\ lease' = [lease EXCEPT ![p] = "Running"]
            /\ owned_by' = None
            /\ mgr_result' = [mgr_result EXCEPT ![p] = [op |-> "start", ok |-> TRUE]]
            /\ mgr_pc' = [mgr_pc EXCEPT ![p] = "idle"]
            /\ end_of_start(p)
            /\ UNCHANGED mgr_chain
       ELSE panic(p, "BUG: hashchain is not running")
    /\ UNCHANGED <<hash_chain, manager_lock, monitor_tx, miner_halt,
                   start_calls, not_gvars>>

(***************************************************************************)
(* RunningChain::stop: self.manager.stop_chain(false)                      *)
(***************************************************************************)
StopCall(p) ==
    /\ mgr_pc[p] = "idle"
    /\ lease[p] = "Running"
    /\ mgr_pc' = [mgr_pc EXCEPT ![p] = "stop_lock"]
    /\ UNCHANGED <<owned_by, hash_chain, manager_lock, monitor_tx, miner_halt,
                   mgr_chain, lease, tries_left, attempts, delays, start_calls,
                   mgr_result, not_gvars>>

(***************************************************************************)
(* The miner halt is broadcast: the handler registered for the manager     *)
(* runs Manager::termination_handler, stop_chain(true)                     *)
(***************************************************************************)
MinerHalt ==
    /\ ~miner_halt
    /\ miner_halt' = TRUE
    /\ mgr_pc' = [mgr_pc EXCEPT ![Handler] = "stop_lock"]
    /\ UNCHANGED <<owned_by, hash_chain, manager_lock, monitor_tx, mgr_chain,
                   lease, tries_left, attempts, delays, start_calls,
                   mgr_result, not_gvars>>

(***************************************************************************)
(* Manager::stop_chain: lock inner, inner.hash_chain.take(); return when   *)
(* it is missing and that is ok, panic when it is missing and that is not  *)
(***************************************************************************)
StopTake(t) ==
    /\ mgr_pc[t] = "stop_lock"
    /\ manager_lock = "free"
    /\ hash_chain' = None
    /\ IF hash_chain.some
       THEN /\ manager_lock' = t
            /\ mgr_chain' = [mgr_chain EXCEPT ![t] = hash_chain]
            /\ mgr_pc' = [mgr_pc EXCEPT ![t] = stop_chain_next("stop_lock")]
            /\ UNCHANGED <<mgr_result, lease, owned_by, tries_left, attempts, delays>>
       ELSE /\ UNCHANGED manager_lock
            /\ IF t = Handler
               THEN /\ mgr_pc' = [mgr_pc EXCEPT ![t] = "done"]
                    /\ UNCHANGED <<mgr_chain, mgr_result, lease, owned_by,
                                   tries_left, attempts, delays>>
               ELSE panic(t, "BUG: hashchain is missing")
    /\ UNCHANGED <<monitor_tx, miner_halt, start_calls, not_gvars>>

(***************************************************************************)
(* Manager::stop_chain: hash_chain.halt_sender.clone().send_halt().await   *)
(* completes                                                               *)
(***************************************************************************)
StopHalt(t) ==
    /\ mgr_pc[t] = "stop_halt"
    /\ mgr_chain' = [mgr_chain EXCEPT ![t] = Some(halt_completed(@.val))]
    /\ mgr_pc' = [mgr_pc EXCEPT ![t] = stop_chain_next("stop_halt")]
    /\ UNCHANGED <<owned_by, hash_chain, manager_lock, monitor_tx, miner_halt,
                   lease, tries_left, attempts, delays, start_calls,
                   mgr_result, not_gvars>>

(***************************************************************************)
(* Manager::stop_chain: tell the monitor we are done                       *)
(***************************************************************************)
StopOff(t) ==
    /\ mgr_pc[t] = "stop_off"
    /\ monitor_tx' = Some(MsgOff)
    /\ mgr_pc' = [mgr_pc EXCEPT ![t] = stop_chain_next("stop_off")]
    /\ UNCHANGED <<owned_by, hash_chain, manager_lock, miner_halt, mgr_chain,
                   lease, tries_left, attempts, delays, start_calls,
                   mgr_result, not_gvars>>

(***************************************************************************)
(* Manager::stop_chain returns (inner is unlocked, the HashChain is        *)
(* dropped).  RunningChain::stop returns a StoppedChain of the same        *)
(* manager and `self`, the RunningChain, goes out of scope: its Drop takes *)
(* owned_by                                                                *)
(***************************************************************************)
StopReturn(t) ==
    /\ mgr_pc[t] = "stop_return"
    /\ manager_lock' = "free"
    /\ mgr_chain' = [mgr_chain EXCEPT ![t] = None]
    /\ IF t = Handler
       THEN /\ mgr_pc' = [mgr_pc EXCEPT ![t] = "done"]
            /\ UNCHANGED <<lease, owned_by, mgr_result>>
       ELSE /\ mgr_pc' = [mgr_pc EXCEPT ![t] = "idle"]
            /\ lease' = [lease EXCEPT ![t] = "Stopped"]
            /\ owned_by' = None
            /\ mgr_result' = [mgr_result EXCEPT ![t] = [op |-> "stop"]]
    /\ UNCHANGED <<hash_chain, monitor_tx, miner_halt, tries_left, attempts,
                   delays, start_calls, not_gvars>>

InitManager == IdleDecide /\ IdleChain /\ IdleMonitor /\ IdleBoard

NextManager ==
    \/ \E p \in Owners : Acquire(p)
    \/ \E p \in Owners : AcquireLease(p)
    \/ \E p \in Owners : DropLease(p)
    \/ \E p \in Owners : StartCall(p)
    \/ \E p \in Owners : AttemptStart(p)
    \/ \E p \in Owners : InitReturns(p)
    \/ \E p \in Owners : FailHalt(p)
    \/ \E p \in Owners : FailOff(p)
    \/ \E p \in Owners : RetryDelay(p)
    \/ \E p \in Owners : StartOk(p)
    \/ \E p \in Owners : StopCall(p)
    \/ MinerHalt
    \/ \E t \in Tasks : StopTake(t)
    \/ \E t \in Tasks : StopHalt(t)
    \/ \E t \in Tasks : StopOff(t)
    \/ \E t \in Tasks : StopReturn(t)

SpecManager == InitManager /\ [][NextManager]_vars

(***************************************************************************)
(* C11: at any time at most one lease (StoppedChain or RunningChain) of    *)
(* the manager is alive, and while a lease is alive owned_by names its     *)
(* holder (so that every acquire returns Err with that name); this across  *)
(* StoppedChain::start and RunningChain::stop as well.                     *)
(***************************************************************************)
C11_SingleLease ==
    /\ Cardinality({p \in Owners : lease[p] # "None"}) <= 1
    /\ \A p \in Owners : lease[p] # "None" => owned_by = Some(p)

\* the attempts of p's call of start made before its last one all failed
EarlierAttemptsFailed(p) ==
    \A i \in 1..(Len(attempts[p]) - 1) : attempts[p][i].result = "Err"

(***************************************************************************)
(* C12: one call of StoppedChain::start returns Ok(RunningChain) at the    *)
(* first attempt_start_chain that succeeds; while attempts fail it makes   *)
(* at most ENUM_RETRY_COUNT retries, each after one more                   *)
(* delay_for(ENUM_RETRY_DELAY); when the attempt after the last retry      *)
(* fails it returns Err with the error of that attempt, and the caller     *)
(* keeps the StoppedChain (no Drop runs, owned_by is not touched).         *)
(***************************************************************************)
C12_StartRetries ==
    [][\A p \in Owners :
         \* an attempt begins: it is a retry within the budget, after its delay
         /\ Len(attempts'[p]) = Len(attempts[p]) + 1
               => /\ Len(attempts[p]) <= ENUM_RETRY_COUNT
                  /\ delays[p] = Len(attempts[p])
                  /\ \A i \in DOMAIN attempts[p] :
                        attempts[p][i].result \notin {"Ok", "pending"}
         \* an attempt succeeds: no further attempt, start returns Ok
         /\ (mgr_pc[p] = "init" /\ mgr_pc'[p] = "start_ok")
               => /\ attempts'[p][Len(attempts'[p])].result = "Ok"
                  /\ EarlierAttemptsFailed(p)
         /\ (mgr_pc[p] = "start_ok" /\ mgr_pc'[p] = "idle")
               => /\ attempts[p][Len(attempts[p])].result = "Ok"
                  /\ mgr_result'[p] = [op |-> "start", ok |-> TRUE]
                  /\ lease'[p] = "Running"
         \* an attempt fails: retry while the budget lasts, else return Err
         /\ (mgr_pc[p] = "fail_off" /\ mgr_pc'[p] = "delay")
               => Len(attempts[p]) <= ENUM_RETRY_COUNT
         /\ (mgr_pc[p] = "fail_off" /\ mgr_pc'[p] = "idle")
               => /\ Len(attempts[p]) = ENUM_RETRY_COUNT + 1
                  /\ delays[p] = ENUM_RETRY_COUNT
                  /\ EarlierAttemptsFailed(p)
                  /\ mgr_result'[p].op = "start"
                  /\ mgr_result'[p].ok = FALSE
                  /\ mgr_result'[p].err = attempts[p][Len(attempts[p])].result
                  /\ lease'[p] = "Stopped"
                  /\ lease[p] = "Stopped"
                  /\ owned_by' = owned_by]_vars

\* main's start has used up its budget: Err after ENUM_RETRY_COUNT + 1
\* attempts, the StoppedChain still held and owned
C12_Witness ==
    /\ mgr_pc["main"] = "idle"
    /\ mgr_result["main"] =
          [op |-> "start", ok |-> FALSE, err |-> "ChipEnumeration",
           attempts |-> ENUM_RETRY_COUNT + 1]
    /\ lease["main"] = "Stopped"
    /\ owned_by = Some("main")

(***************************************************************************)
(* C13 as stated: accept_less_chips is false as long as no more than half  *)
(* of the retry budget has been used, and true on the attempts after that. *)
(***************************************************************************)
C13_FalseUpToHalfUsed ==
    \A p \in Owners : \A i \in DOMAIN attempts[p] :
        attempts[p][i].accept_less_chips = (i - 1 > ENUM_RETRY_COUNT \div 2)

(***************************************************************************)
(* C13: within one StoppedChain::start, attempt_start_chain is called with *)
(* accept_less_chips = false while fewer than half of the retries          *)
(* (ENUM_RETRY_COUNT / 2 = 5) have been used, and with accept_less_chips = *)
(* true on every attempt from the one made after the fifth retry on (the   *)
(* sixth attempt); the flag never goes back to false in later attempts.    *)
(***************************************************************************)
C13_TrueFromHalfUsed ==
    \A p \in Owners : \A i \in DOMAIN attempts[p] :
        /\ attempts[p][i].after_delays = i - 1
        /\ attempts[p][i].accept_less_chips = (i - 1 >= ENUM_RETRY_COUNT \div 2)

\* the sixth attempt, after five retries, is the first with accept_less_chips
C13_Witness ==
    /\ Len(attempts["main"]) = ENUM_RETRY_COUNT \div 2 + 1
    /\ tries_left["main"] = ENUM_RETRY_COUNT \div 2
    /\ ~attempts["main"][ENUM_RETRY_COUNT \div 2].accept_less_chips
    /\ attempts["main"][ENUM_RETRY_COUNT \div 2 + 1].accept_less_chips
    /\ mgr_pc["main"] = "init"

(***************************************************************************)
(* C14: RunningChain::stop (when it finds the hashchain) takes the         *)
(* hashchain out of inner.hash_chain, then completes send_halt on that     *)
(* chain's halt sender, sends Off to the monitor only after that halt has  *)
(* completed, and then yields a StoppedChain of the same manager.          *)
(***************************************************************************)
C14_StopHaltsThenOff ==
    [][\A p \in Owners :
         /\ (mgr_pc[p] = "stop_halt" /\ mgr_pc'[p] # "stop_halt")
               => /\ hash_chain = None
                  /\ mgr_chain'[p].val.halted
                  /\ monitor_tx' = monitor_tx
         /\ (mgr_pc[p] = "stop_lock" /\ mgr_pc'[p] \notin {"stop_lock", "panicked"})
               => /\ hash_chain' = None
                  /\ mgr_chain'[p] = hash_chain
                  /\ ~mgr_chain'[p].val.halted
                  /\ monitor_tx' = monitor_tx
         /\ (mgr_pc[p] = "stop_off" /\ mgr_pc'[p] # "stop_off")
               => /\ monitor_tx' = Some(MsgOff)
                  /\ hash_chain = None
                  /\ mgr_chain[p].some /\ mgr_chain[p].val.halted
         /\ (mgr_pc[p] = "stop_return" /\ mgr_pc'[p] = "idle")
               => /\ monitor_tx = Some(MsgOff)
                  /\ mgr_chain[p].val.halted
                  /\ hash_chain' = None
                  /\ lease'[p] = "Stopped"]_vars

\* main has stopped the chain it started: halted, Off sent, StoppedChain
C14_Witness ==
    /\ mgr_pc["main"] = "idle"
    /\ mgr_result["main"] = [op |-> "stop"]
    /\ lease["main"] = "Stopped"
    /\ hash_chain = None
    /\ monitor_tx = Some(MsgOff)
    /\ ~miner_halt

(***************************************************************************)
(* RunningChain::wait_for_preheat (bosminer-am1-s9/src/lib.rs) and the     *)
(* watch channel on which the monitor broadcasts its Status                *)
(***************************************************************************)
MAX_PREHEAT_DELAY == 180

PREHEAT_TEMP_EPSILON == 2

\* Status: the fields preheat_ok reads
Status(config, input_temperature) ==
    [config |-> config, input_temperature |-> input_temperature]

\* RunningChain::preheat_ok
preheat_ok(st) ==
    IF ~st.config.fan_config.some THEN TRUE
    ELSE IF st.config.fan_config.val.mode.kind # "TargetTemperature" THEN TRUE
    ELSE LET target_temp == st.config.fan_config.val.mode.target
         IN  /\ st.input_temperature.tag = "Ok"
             /\ \/ st.input_temperature.t >= target_temp
                \/ target_temp - st.input_temperature.t < PREHEAT_TEMP_EPSILON

\* wait_for_preheat: `duration_since(preheat_started).as_secs() >= MAX_PREHEAT_DELAY`
waiting_too_long(now, since) == now - since >= MAX_PREHEAT_DELAY

\* the configurations and temperatures of the statuses that are broadcast
PreheatConfigs ==
    {Config(None, None, TRUE),
     Config(Some(FanControlConfig(FixedSpeed(50), 1)), None, TRUE),
     Config(Some(FanControlConfig(TargetTemperature(75), 1)),
            Some(TempControlConfig(100, 80)), TRUE)}

PreheatTemperatures == {Unknown, Ok(50), Ok(73), Ok(74), Ok(80)}

\* the instants the clock runs through
PreheatHorizon == MAX_PREHEAT_DELAY + 2 * TICK_LENGTH

InitPreheat ==
    /\ IdleDecide /\ IdleChain /\ IdleMonitor /\ IdleManager /\ IdleInit
    /\ IdlePll /\ IdleWork /\ IdleHalt /\ IdleWatchdog
    /\ IdleAggregate /\ IdleUtils
    /\ preheat_config \in PreheatConfigs
    /\ watch_value = None
    /\ watch_unseen = TRUE
    /\ publishing = TRUE
    /\ next_publish = 0
    /\ preheat_clock = 0
    /\ preheat_pc = "idle"
    /\ preheat_started = 0

(***************************************************************************)
(* Monitor::do_tick, at the end of a tick: status_sender.broadcast; the    *)
(* next tick is TICK_LENGTH later                                          *)
(***************************************************************************)
MonitorPublish ==
    /\ publishing
    /\ preheat_clock = next_publish
    /\ \E t \in PreheatTemperatures :
          watch_value' = Some(Status(preheat_config, t))
    /\ watch_unseen' = TRUE
    /\ next_publish' = next_publish + TICK_LENGTH
    /\ UNCHANGED <<preheat_config, publishing, preheat_clock, preheat_pc,
                   preheat_started, not_pvars>>

(***************************************************************************)
(* Monitor::shutdown and the halt: do_tick returns without a broadcast and *)
(* the tick task ends; the Monitor (and status_sender) stays alive         *)
(***************************************************************************)
MonitorStops ==
    /\ publishing
    /\ publishing' = FALSE
    /\ UNCHANGED <<preheat_config, watch_value, watch_unseen, next_publish,
                   preheat_clock, preheat_pc, preheat_started, not_pvars>>

(***************************************************************************)
(* wait_for_preheat: clone status_receiver, `let started = Instant::now()` *)
(***************************************************************************)
PreheatCall ==
    /\ preheat_pc = "idle"
    /\ watch_unseen' = TRUE
    /\ preheat_started' = preheat_clock
    /\ preheat_pc' = "next"
    /\ UNCHANGED <<preheat_config, watch_value, publishing, next_publish,
                   preheat_clock, not_pvars>>

(***************************************************************************)
(* wait_for_preheat: status_receiver.next().await yields the value the     *)
(* receiver has not seen yet, and one turn of the loop                     *)
(***************************************************************************)
PreheatNext ==
    /\ preheat_pc = "next"
    /\ watch_unseen
    /\ watch_unseen' = FALSE
    /\ preheat_pc' =
          IF watch_value.some /\ preheat_ok(watch_value.val) THEN "hot_enough"
          ELSE IF waiting_too_long(preheat_clock, preheat_started) THEN "skipped"
          ELSE "next"
    /\ UNCHANGED <<preheat_config, watch_value, publishing, next_publish,
                   preheat_clock, preheat_started, not_pvars>>

(***************************************************************************)
(* Time passes while wait_for_preheat is suspended and no broadcast is due *)
(***************************************************************************)
PreheatClock ==
    /\ preheat_clock < PreheatHorizon
    /\ ~(preheat_pc = "next" /\ watch_unseen)
    /\ publishing => preheat_clock < next_publish
    /\ preheat_pc = "idle" => preheat_clock < TICK_LENGTH
    /\ preheat_clock' = preheat_clock + 1
    /\ UNCHANGED <<preheat_config, watch_value, watch_unseen, publishing,
                   next_publish, preheat_pc, preheat_started, not_pvars>>

NextPreheat ==
    \/ MonitorPublish
    \/ MonitorStops
    \/ PreheatCall
    \/ PreheatNext
    \/ PreheatClock

SpecPreheat == InitPreheat /\ [][NextPreheat]_vars

(***************************************************************************)
(* C15: wait_for_preheat has returned at the latest MAX_PREHEAT_DELAY      *)
(* after it was called, also when the monitor publishes no further status. *)
(***************************************************************************)
C15_PreheatReturns ==
    (preheat_pc = "next" /\ ~publishing)
        => preheat_clock - preheat_started <= MAX_PREHEAT_DELAY

(***************************************************************************)
(* HashChain::reset_and_enumerate_and_init and HashChain::enumerate_chips  *)
(* (bosminer-am1-s9/src/hashchain.rs)                                      *)
(***************************************************************************)
MAX_CHIPS_ON_CHAIN == 63

EXPECTED_CHIPS_ON_CHAIN == 63

CHIP_REV_BM1387 == "BM1387"

\* the numbers of chips that may answer the enumeration read
ResponseCounts ==
    {0, 1, 2, EXPECTED_CHIPS_ON_CHAIN - 1, EXPECTED_CHIPS_ON_CHAIN,
     MAX_CHIPS_ON_CHAIN + 1}

\* the answers to the enumeration read: n chips, the one at `other` (if any)
\* of a different revision
Responses(n, other) ==
    [i \in 1..n |-> IF i = other THEN "other" ELSE CHIP_REV_BM1387]

ResponseSets ==
    {Responses(n, other) : n \in ResponseCounts, other \in ResponseCounts}

\* enumerate_chips: `addr_reg.chip_rev != bm1387::CHIP_REV_BM1387` for some
\* response
unexpected_revision(resp) ==
    \E i \in 1..Len(resp) : resp[i] # CHIP_REV_BM1387

\* enumerate_chips: `self.chip_count > MAX_CHIPS_ON_CHAIN`
too_many_chips(count) == count > MAX_CHIPS_ON_CHAIN

\* reset_and_enumerate_and_init, mutated: accept_less_chips is ignored
not_enough_chips_strict(count, accept) == count < EXPECTED_CHIPS_ON_CHAIN

\* reset_and_enumerate_and_init:
\* `self.chip_count < EXPECTED_CHIPS_ON_CHAIN && !accept_less_chips`
not_enough_chips(count, accept) ==
    count < EXPECTED_CHIPS_ON_CHAIN /\ ~accept

\* reset_and_enumerate_and_init, mutated: the chips are enumerated before
\* the board leaves reset
init_next_in_reset(step) ==
    CASE step = "enter_reset" -> "disable_voltage"
      [] step = "disable_voltage" -> "enable_voltage"
      [] step = "enable_voltage" -> "enumerate_chips"
      [] step = "exit_reset" -> "enumerate_chips"
      [] step = "enumerate_chips" -> "set_chip_count"
      [] step = "set_chip_count" -> "set_pll"
      [] step = "set_pll" -> "configure_hash_chain"
      [] step = "configure_hash_chain" -> "set_ip_core_baud_rate"
      [] step = "set_ip_core_baud_rate" -> "set_asic_diff"
      [] step = "set_asic_diff" -> "returned"

\* reset_and_enumerate_and_init: the statement after each statement
init_next(step) ==
    CASE step = "enter_reset" -> "disable_voltage"
      [] step = "disable_voltage" -> "enable_voltage"
      [] step = "enable_voltage" -> "exit_reset"
      [] step = "exit_reset" -> "enumerate_chips"
      [] step = "enumerate_chips" -> "set_chip_count"
      [] step = "set_chip_count" -> "set_pll"
      [] step = "set_pll" -> "configure_hash_chain"
      [] step = "configure_hash_chain" -> "set_ip_core_baud_rate"
      [] step = "set_ip_core_baud_rate" -> "set_asic_diff"
      [] step = "set_asic_diff" -> "returned"

\* the commands that go to the chips over the IP core
ChipCommands ==
    {"read_register GetAddressReg", "InactivateFromChain", "SetChipAddress",
     "write_register PllReg", "write_register MiscCtrlReg",
     "write_register TicketMaskReg"}

\* enumerate_chips: `for _ in 0..3` InactivateFromChain, then SetChipAddress
\* `for i in 0..self.chip_count`
address_assignment(count) ==
    [i \in 1..(3 + count) |->
        IF i <= 3 THEN "InactivateFromChain" ELSE "SetChipAddress"]

InitErr(kind) == [op |-> "init", ok |-> FALSE, err |-> kind]

InitOk == [op |-> "init", ok |-> TRUE]

\* `?` on a failed statement, or the next statement
init_step(ok, err, log) ==
    /\ init_log' = log
    /\ IF ok
       THEN /\ init_pc' = init_next(init_pc)
            /\ init_result' = IF init_next(init_pc) = "returned"
                              THEN InitOk ELSE init_result
       ELSE /\ init_pc' = "returned"
            /\ init_result' = InitErr(err)

InitInit ==
    /\ IdleDecide /\ IdleChain /\ IdleMonitor /\ IdleManager /\ IdlePreheat
    /\ IdlePll /\ IdleWork /\ IdleHalt /\ IdleWatchdog
    /\ IdleAggregate /\ IdleUtils
    /\ ip_core_enabled \in BOOLEAN
    /\ in_reset \in BOOLEAN
    /\ voltage_enabled \in BOOLEAN
    /\ init_pc = "idle"
    /\ init_accept = FALSE
    /\ responses = None
    /\ chip_count = 0
    /\ init_log = <<>>
    /\ init_result = NoResult

\* HashChain::init calls reset_and_enumerate_and_init(accept_less_chips, ..)
ResetAndEnumerateAndInit ==
    /\ init_pc = "idle"
    /\ init_accept' \in BOOLEAN
    /\ init_pc' = "enter_reset"
    /\ UNCHANGED <<ip_core_enabled, in_reset, voltage_enabled, responses,
                   chip_count, init_log, init_result, not_ivars>>

\* enter_reset: disable_ip_core, then reset_pin.enter_reset()?
EnterReset ==
    /\ init_pc = "enter_reset"
    /\ ip_core_enabled' = FALSE
    /\ \E ok \in BOOLEAN :
          /\ in_reset' = IF ok THEN TRUE ELSE in_reset
          /\ init_step(ok, "Io",
                init_log \o <<"disable_ip_core">>
                         \o (IF ok THEN <<"enter_reset">> ELSE <<>>))
    /\ UNCHANGED <<voltage_enabled, init_accept, responses, chip_count,
                   not_ivars>>

\* voltage_ctrl.disable_voltage().await?, delay_for(INIT_DELAY)
DisableVoltage ==
    /\ init_pc = "disable_voltage"
    /\ \E ok \in BOOLEAN :
          /\ voltage_enabled' = IF ok THEN FALSE ELSE voltage_enabled
          /\ init_step(ok, "Io",
                init_log \o (IF ok THEN <<"disable_voltage">> ELSE <<>>))
    /\ UNCHANGED <<ip_core_enabled, in_reset, init_accept, responses,
                   chip_count, not_ivars>>

\* voltage_ctrl.enable_voltage().await?, delay_for(INIT_DELAY * 2)
EnableVoltage ==
    /\ init_pc = "enable_voltage"
    /\ \E ok \in BOOLEAN :
          /\ voltage_enabled' = IF ok THEN TRUE ELSE voltage_enabled
          /\ init_step(ok, "Io",
                init_log \o (IF ok THEN <<"enable_voltage">> ELSE <<>>))
    /\ UNCHANGED <<ip_core_enabled, in_reset, init_accept, responses,
                   chip_count, not_ivars>>

\* exit_reset: reset_pin.exit_reset()?, then enable_ip_core;
\* delay_for(INIT_DELAY)
ExitReset ==
    /\ init_pc = "exit_reset"
    /\ \E ok \in BOOLEAN :
          /\ in_reset' = IF ok THEN FALSE ELSE in_reset
          /\ ip_core_enabled' = IF ok THEN TRUE ELSE ip_core_enabled
          /\ init_step(ok, "Io",
                init_log \o (IF ok THEN <<"exit_reset", "enable_ip_core">>
                                   ELSE <<>>))
    /\ UNCHANGED <<voltage_enabled, init_accept, responses, chip_count,
                   not_ivars>>

(***************************************************************************)
(* enumerate_chips: the broadcast read of the address register, the check  *)
(* of the responses, InactivateFromChain three times and SetChipAddress    *)
(* for every chip                                                          *)
(***************************************************************************)
EnumerateChips ==
    /\ init_pc = "enumerate_chips"
    /\ \/ \* the read fails
          /\ init_step(FALSE, "Io",
                init_log \o <<"read_register GetAddressReg">>)
          /\ UNCHANGED <<responses, chip_count>>
       \/ \E resp \in ResponseSets :
             LET bad == {i \in 1..Len(resp) : resp[i] # CHIP_REV_BM1387}
                 \* chip_count when the loop over the responses ends
                 counted == IF unexpected_revision(resp)
                            THEN (CHOOSE i \in bad :
                                     \A j \in bad : i <= j) - 1
                            ELSE Len(resp)
                 good == /\ ~unexpected_revision(resp)
                         /\ ~too_many_chips(counted)
                         /\ counted # 0
             IN  /\ responses' = Some(resp)
                 /\ chip_count' = counted
                 /\ init_step(good, "ChipEnumeration",
                       init_log \o <<"read_register GetAddressReg">>
                                \o (IF good THEN address_assignment(counted)
                                            ELSE <<>>))
    /\ UNCHANGED <<ip_core_enabled, in_reset, voltage_enabled, init_accept,
                   not_ivars>>

\* set_chip_count(self.chip_count) and the check for a full chain
SetChipCount ==
    /\ init_pc = "set_chip_count"
    /\ init_step(~not_enough_chips(chip_count, init_accept),
                 "ChipEnumeration", init_log)
    /\ UNCHANGED <<ip_core_enabled, in_reset, voltage_enabled, init_accept,
                   responses, chip_count, not_ivars>>

\* self.set_pll(initial_frequency).await?
InitSetPll ==
    /\ init_pc = "set_pll"
    /\ \E ok \in BOOLEAN :
          init_step(ok, "Io", init_log \o <<"write_register PllReg">>)
    /\ UNCHANGED <<ip_core_enabled, in_reset, voltage_enabled, init_accept,
                   responses, chip_count, not_ivars>>

\* self.configure_hash_chain(TARGET_CHIP_BAUD_RATE, false, true).await?
ConfigureHashChain ==
    /\ init_pc = "configure_hash_chain"
    /\ \E ok \in BOOLEAN :
          init_step(ok, "Io", init_log \o <<"write_register MiscCtrlReg">>)
    /\ UNCHANGED <<ip_core_enabled, in_reset, voltage_enabled, init_accept,
                   responses, chip_count, not_ivars>>

\* self.set_ip_core_baud_rate(TARGET_CHIP_BAUD_RATE)?
SetIpCoreBaudRate ==
    /\ init_pc = "set_ip_core_baud_rate"
    /\ \E ok \in BOOLEAN :
          init_step(ok, "BaudRate",
                    init_log \o (IF ok THEN <<"set_baud_clock_div">>
                                       ELSE <<>>))
    /\ UNCHANGED <<ip_core_enabled, in_reset, voltage_enabled, init_accept,
                   responses, chip_count, not_ivars>>

\* self.set_asic_diff(self.asic_difficulty).await?
SetAsicDiff ==
    /\ init_pc = "set_asic_diff"
    /\ \E ok \in BOOLEAN :
          init_step(ok, "Io", init_log \o <<"write_register TicketMaskReg">>)
    /\ UNCHANGED <<ip_core_enabled, in_reset, voltage_enabled, init_accept,
                   responses, chip_count, not_ivars>>

NextInit ==
    \/ ResetAndEnumerateAndInit
    \/ EnterReset
    \/ DisableVoltage
    \/ EnableVoltage
    \/ ExitReset
    \/ EnumerateChips
    \/ SetChipCount
    \/ InitSetPll
    \/ ConfigureHashChain
    \/ SetIpCoreBaudRate
    \/ SetAsicDiff

SpecInit == InitInit /\ [][NextInit]_vars

\* PLL, chip baud rate or difficulty have been written to the chips
Programmed ==
    \E i \in 1..Len(init_log) :
        init_log[i] \in {"write_register PllReg", "write_register MiscCtrlReg",
                         "write_register TicketMaskReg"}

(***************************************************************************)
(* C16: once the enumeration read has been answered, initialisation fails  *)
(* with ChipEnumeration when a responding chip is not a BM1387, when no    *)
(* chip or more than MAX_CHIPS_ON_CHAIN chips respond, or when fewer than  *)
(* EXPECTED_CHIPS_ON_CHAIN respond and accept_less_chips is false, and     *)
(* then PLL, chip baud rate and difficulty are never programmed; otherwise *)
(* (in particular with accept_less_chips true and 1..62 chips of the right *)
(* revision) the enumeration is accepted: initialisation goes on to        *)
(* program the PLL and does not fail with ChipEnumeration.                 *)
(***************************************************************************)
C16_ChipEnumeration ==
    responses.some =>
        LET resp == responses.val
            n == Len(resp)
            refused == \/ \E i \in 1..n : resp[i] # CHIP_REV_BM1387
                       \/ n = 0
                       \/ n > MAX_CHIPS_ON_CHAIN
                       \/ (n < EXPECTED_CHIPS_ON_CHAIN /\ ~init_accept)
        IN  /\ refused
                => /\ ~Programmed
                   /\ init_pc \in {"set_chip_count", "returned"}
                   /\ init_pc = "returned"
                         => init_result = InitErr("ChipEnumeration")
            /\ (~refused /\ init_pc = "returned")
                => /\ init_result # InitErr("ChipEnumeration")
                   /\ Programmed

\* accept_less_chips lets a chain of 62 chips through: all is programmed
C16_Witness ==
    /\ responses.some
    /\ Len(responses.val) = EXPECTED_CHIPS_ON_CHAIN - 1
    /\ init_accept
    /\ init_pc = "returned"
    /\ init_result = InitOk

(***************************************************************************)
(* C18: reset_and_enumerate_and_init first disables the IP core and drives *)
(* reset low, then disables the voltage, enables the voltage, releases     *)
(* reset and then enables the IP core, and only after that sends the first *)
(* chip command; every chip command is sent with the board out of reset    *)
(* and the IP core enabled.                                                *)
(***************************************************************************)
C18_ResetThenCommands ==
    [][LET order == <<"disable_ip_core", "enter_reset", "disable_voltage",
                      "enable_voltage", "exit_reset", "enable_ip_core">>
           k == IF Len(init_log') < Len(order) THEN Len(init_log')
                ELSE Len(order)
       IN  /\ SubSeq(init_log', 1, k) = SubSeq(order, 1, k)
           /\ \A i \in (Len(init_log) + 1)..Len(init_log') :
                 init_log'[i] \in ChipCommands
                     => /\ Len(init_log) >= Len(order)
                        /\ ~in_reset /\ ip_core_enabled /\ voltage_enabled
                        /\ ~in_reset' /\ ip_core_enabled']_vars

\* the chips have been enumerated and programmed after the reset sequence
C18_Witness ==
    /\ Len(init_log) > 6
    /\ init_log[7] = "read_register GetAddressReg"
    /\ init_pc = "returned"
    /\ init_result = InitOk

(***************************************************************************)
(* HashChain::set_pll and HashChain::set_chip_pll                          *)
(* (bosminer-am1-s9/src/hashchain.rs); frequencies are in MHz              *)
(***************************************************************************)
MaxPllChips == 2

MaxPllCalls == 3

\* the frequencies the precomputed PLL table has a register setting for
PllTable == {500, 650}

\* the frequencies that are requested
Frequencies == {500, 510, 650}

Distance(a, b) == IF a < b THEN b - a ELSE a - b

\* PllTable::lookup: the setting closest to the request; an error for a
\* request outside the table
lookup(freq) ==
    IF (\A lo \in PllTable : freq < lo) \/ (\A hi \in PllTable : freq > hi)
    THEN None
    ELSE Some(CHOOSE f \in PllTable :
                 \A g \in PllTable :
                    \/ Distance(f, freq) < Distance(g, freq)
                    \/ Distance(f, freq) = Distance(g, freq) /\ f <= g)

\* FrequencySettings::min
FrequencyMin(frequency) ==
    CHOOSE f \in {frequency[i] : i \in 1..Len(frequency)} :
        \A i \in 1..Len(frequency) : f <= frequency[i]

\* FrequencySettings::max
FrequencyMax(frequency) ==
    CHOOSE f \in {frequency[i] : i \in 1..Len(frequency)} :
        \A i \in 1..Len(frequency) : f >= frequency[i]

\* the requests: FrequencySettings with a frequency for every chip
FrequencySettings == [1..MaxPllChips -> Frequencies]

\* set_pll, the one-by-one branch: the chips for which set_chip_pll is called
chips_to_write(frequency) ==
    {i \in 1..pll_chip_count : cur_frequency[i] # frequency[i]}

\* set_pll, the one-by-one branch: the frequency handed to set_chip_pll for
\* chip i: `let new_freq = self.frequency.lock().await.chip[i]`
new_freq(frequency, i) == cur_frequency[i]

\* the chain has been enumerated: HashChain::new stored from_frequency(0),
\* set_chip_count cut it to chip_count; no PLL register has been written
InitPll ==
    /\ IdleDecide /\ IdleChain /\ IdleMonitor /\ IdleManager /\ IdlePreheat
    /\ IdleInit /\ IdleWork /\ IdleHalt /\ IdleWatchdog
    /\ IdleAggregate /\ IdleUtils
    /\ pll_chip_count \in 1..MaxPllChips
    /\ cur_frequency = [i \in 1..pll_chip_count |-> 0]
    /\ chip_pll = [i \in 1..pll_chip_count |-> None]
    /\ work_time_freq = 0
    /\ pll_request = None
    /\ pll_calls = 0
    /\ pll_failed = FALSE

\* set_pll returns Ok: work time and the persisted vector follow the request
pll_persist(frequency) ==
    /\ work_time_freq' = FrequencyMax(frequency)
    /\ cur_frequency' = [i \in 1..pll_chip_count |-> frequency[i]]
    /\ UNCHANGED pll_failed

\* set_pll returns Err: `?` leaves before set_work_time
pll_error ==
    /\ pll_failed' = TRUE
    /\ UNCHANGED <<work_time_freq, cur_frequency>>

(***************************************************************************)
(* set_pll(frequency) with all frequencies equal: one broadcast write of   *)
(* the setting looked up for frequency.chip[0]                             *)
(***************************************************************************)
SetPllAll ==
    /\ pll_calls < MaxPllCalls
    /\ \E frequency \in FrequencySettings, io_ok \in BOOLEAN :
          /\ FrequencyMin(frequency) = FrequencyMax(frequency)
          /\ pll_request' = Some(frequency)
          /\ IF lookup(frequency[1]).some /\ io_ok
             THEN /\ chip_pll' = [i \in 1..pll_chip_count |->
                                     lookup(frequency[1])]
                  /\ pll_persist(frequency)
             ELSE /\ UNCHANGED chip_pll
                  /\ pll_error
    /\ pll_calls' = pll_calls + 1
    /\ UNCHANGED <<pll_chip_count, not_fvars>>

(***************************************************************************)
(* set_pll(frequency) with differing frequencies: chip by chip, a write to *)
(* every chip whose stored frequency differs from the request; the first   *)
(* failing lookup or write (io_fail) ends the call                         *)
(***************************************************************************)
SetPllOneByOne ==
    /\ pll_calls < MaxPllCalls
    /\ \E frequency \in FrequencySettings, io_fail \in 0..pll_chip_count :
          LET writes == chips_to_write(frequency)
              fails == {i \in writes :
                           i = io_fail \/ ~lookup(new_freq(frequency, i)).some}
              done == {i \in writes : \A j \in fails : i < j}
          IN  /\ FrequencyMin(frequency) # FrequencyMax(frequency)
              /\ pll_request' = Some(frequency)
              /\ chip_pll' = [i \in 1..pll_chip_count |->
                                 IF i \in done
                                 THEN lookup(new_freq(frequency, i))
                                 ELSE chip_pll[i]]
              /\ IF fails = {} THEN pll_persist(frequency) ELSE pll_error
    /\ pll_calls' = pll_calls + 1
    /\ UNCHANGED <<pll_chip_count, not_fvars>>

NextPll ==
    \/ SetPllAll
    \/ SetPllOneByOne

SpecPll == InitPll /\ [][NextPll]_vars

(***************************************************************************)
(* C17: after any sequence of successful set_pll calls, for every chip the *)
(* persisted frequency is the last requested one and the PLL last written  *)
(* to the chip is the one looked up for that frequency.                    *)
(***************************************************************************)
C17_PllFollowsRequest ==
    (pll_request.some /\ ~pll_failed)
        => \A i \in 1..pll_chip_count :
              /\ cur_frequency[i] = pll_request.val[i]
              /\ chip_pll[i].some
                    => chip_pll[i] = lookup(pll_request.val[i])

(***************************************************************************)
(* HashChain::send_init_work, HashChain::work_tx_task,                     *)
(* HashChain::solution_rx_task (bosminer-am1-s9/src/hashchain.rs) and the  *)
(* work registry they share                                                *)
(***************************************************************************)
NUM_CORES_ON_CHIP == 114

\* the work-id space of the TX FIFO: work_tx_io.work_id_count()
RegistryCap == 2

\* the number of work items the TX FIFO holds
FifoCap == 1

\* the number of work items the generator yields at most
MaxWork == 3

\* the number of solutions the hardware returns at most
MaxSolutions == 2

\* the midstates of one work item
MIDSTATE_COUNT == 1

Nonces == {1, 2}

\* null_work::prepare_opencore
Opencore == [kind |-> "opencore", n |-> 0]

\* the n-th work item of the generator
Job(n) == [kind |-> "job", n |-> n]

WorkItem(work, initial_work) ==
    [work |-> work, initial_work |-> initial_work, seen |-> {}]

\* WorkRegistry::new(work_id_count)
NewRegistry == [id \in 0..(RegistryCap - 1) |-> None]

\* WorkRegistry::store_work: the slot of the next id is overwritten
store_work(reg, id, work, initial_work) ==
    [reg EXCEPT ![id] = Some(WorkItem(work, initial_work))]

\* WorkRegistry::store_work: the id after id
following_id(id) == (id + 1) % RegistryCap

\* WorkRegistry::find_work
find_work(reg, id) == IF id \in DOMAIN reg THEN reg[id] ELSE None

\* WorkItem::insert_solution: the status it returns
insert_status(work_item, solution) ==
    LET mismatched == solution.midstate_idx >= MIDSTATE_COUNT
        duplicate == ~mismatched /\ <<solution.midstate_idx, solution.nonce>>
                                        \in work_item.seen
    IN  [unique_solution |-> ~mismatched /\ ~duplicate,
         duplicate |-> duplicate,
         mismatched_nonce |-> mismatched]

\* WorkItem::insert_solution, mutated: the solution is not remembered
insert_solution_forgets(work_item, solution) == work_item

\* WorkItem::insert_solution: the work item afterwards
insert_solution(work_item, solution) ==
    IF insert_status(work_item, solution).unique_solution
    THEN [work_item EXCEPT !.seen =
             @ \cup {<<solution.midstate_idx, solution.nonce>>}]
    ELSE work_item

CORE_ADR_SPACE_SIZE == 128

\* bm1387::CoreAddress::new(solution.nonce)
CoreAddress(nonce) == nonce % CORE_ADR_SPACE_SIZE

\* solution_rx_task, mutated: a duplicate is forwarded too
forward_solution_always(inserted) ==
    inserted.unique_solution \/ inserted.duplicate

\* solution_rx_task: `if let Some(unique_solution) = status.unique_solution`
\* and `if !status.duplicate`
forward_solution(inserted) ==
    inserted.unique_solution /\ ~inserted.duplicate

\* solution_rx_task, mutated: solutions of initial work are processed
ignore_solution_never(work_item) == FALSE

\* solution_rx_task: `if work_item.initial_work { continue; }`
ignore_solution(work_item) == work_item.initial_work

\* work_tx_task, mutated: the work is sent before it is stored
work_tx_send_first(step) ==
    CASE step = "wait_for_room" -> "generate"
      [] step = "generate" -> "send_work"
      [] step = "send_work" -> "store_work"
      [] step = "store_work" -> "wait_for_room"

\* work_tx_task: the statement after each statement of the loop
work_tx_next(step) ==
    CASE step = "wait_for_room" -> "generate"
      [] step = "generate" -> "store_work"
      [] step = "store_work" -> "send_work"
      [] step = "send_work" -> "wait_for_room"

\* the solutions the RX FIFO may deliver: any hardware_id, also one outside
\* the registry
HwSolutions ==
    [work_id : 0..RegistryCap, midstate_idx : 0..MIDSTATE_COUNT,
     nonce : Nonces, meets : BOOLEAN]

InitWork ==
    /\ IdleDecide /\ IdleChain /\ IdleMonitor /\ IdleManager /\ IdlePreheat
    /\ IdleInit /\ IdlePll /\ IdleHalt /\ IdleWatchdog
    /\ IdleAggregate /\ IdleUtils
    /\ registry = NewRegistry
    /\ next_work_id = 0
    /\ tx_fifo = 0
    /\ tx_last = None
    /\ tx_sent = 0
    /\ init_stored = 0
    /\ work_pc = "idle"
    /\ tx_work = None
    /\ tx_work_id = 0
    /\ generated = 0
    /\ rx_count = 0
    /\ rx_last = None
    /\ valid = 0
    /\ errors = 0
    /\ forwarded = {}
    /\ resent = {}
    /\ counter_core = None

\* HashChain::init: `if !self.disable_init_work { send_init_work }`, then
\* HashChain::start spawns the tasks
InitWorkOrNot ==
    /\ work_pc = "idle"
    /\ \E disable_init_work \in BOOLEAN :
          work_pc' = IF disable_init_work THEN "wait_for_room"
                     ELSE "init_store_work"
    /\ UNCHANGED <<registry, next_work_id, tx_fifo, tx_last, tx_sent,
                   init_stored, tx_work, tx_work_id, generated, rx_count,
                   rx_last, valid, errors, forwarded, resent, counter_core, not_wvars>>

\* send_init_work: prepare_opencore, store_work(work.clone(), true)
InitStoreWork ==
    /\ work_pc = "init_store_work"
    /\ tx_work' = Some(Opencore)
    /\ tx_work_id' = next_work_id
    /\ registry' = store_work(registry, next_work_id, Opencore, TRUE)
    /\ next_work_id' = following_id(next_work_id)
    /\ init_stored' = init_stored + 1
    /\ work_pc' = "init_wait_for_room"
    /\ UNCHANGED <<tx_fifo, tx_last, tx_sent, generated, rx_count, rx_last,
                   valid, errors, forwarded, resent, counter_core, not_wvars>>

\* send_init_work: tx_fifo.wait_for_room().await
InitWaitForRoom ==
    /\ work_pc = "init_wait_for_room"
    /\ tx_fifo < FifoCap
    /\ work_pc' = "init_send_work"
    /\ UNCHANGED <<registry, next_work_id, tx_fifo, tx_last, tx_sent,
                   init_stored, tx_work, tx_work_id, generated, rx_count,
                   rx_last, valid, errors, forwarded, resent, counter_core, not_wvars>>

\* send_init_work: tx_fifo.send_work(&work, work_id), and the end of the
\* loop `for _ in 0..NUM_WORK`
InitSendWork ==
    /\ work_pc = "init_send_work"
    /\ tx_fifo' = tx_fifo + 1
    /\ tx_last' = Some([work |-> tx_work.val, work_id |-> tx_work_id])
    /\ tx_sent' = tx_sent + 1
    /\ work_pc' = IF tx_sent + 1 < NUM_CORES_ON_CHIP THEN "init_store_work"
                  ELSE "wait_for_room"
    /\ UNCHANGED <<registry, next_work_id, init_stored, tx_work, tx_work_id,
                   generated, rx_count, rx_last, valid, errors, forwarded,
                   resent, counter_core, not_wvars>>

\* the chips take a work item out of the TX FIFO
HwTakesWork ==
    /\ tx_fifo > 0
    /\ tx_fifo' = tx_fifo - 1
    /\ UNCHANGED <<registry, next_work_id, tx_last, tx_sent, init_stored,
                   work_pc, tx_work, tx_work_id, generated, rx_count, rx_last,
                   valid, errors, forwarded, resent, counter_core, not_wvars>>

\* work_tx_task: tx_fifo.wait_for_room().await
WaitForRoom ==
    /\ work_pc = "wait_for_room"
    /\ tx_fifo < FifoCap
    /\ work_pc' = work_tx_next(work_pc)
    /\ UNCHANGED <<registry, next_work_id, tx_fifo, tx_last, tx_sent,
                   init_stored, tx_work, tx_work_id, generated, rx_count,
                   rx_last, valid, errors, forwarded, resent, counter_core, not_wvars>>

\* work_tx_task: work_generator.generate().await; `None => return`
Generate ==
    /\ work_pc = "generate"
    /\ \/ /\ generated < MaxWork
          /\ generated' = generated + 1
          /\ tx_work' = Some(Job(generated + 1))
          /\ work_pc' = work_tx_next(work_pc)
       \/ /\ work_pc' = "returned"
          /\ UNCHANGED <<generated, tx_work>>
    /\ UNCHANGED <<registry, next_work_id, tx_fifo, tx_last, tx_sent,
                   init_stored, tx_work_id, rx_count, rx_last, valid, errors,
                   forwarded, resent, counter_core, not_wvars>>

\* work_tx_task: store_work(work.clone(), false)
StoreWork ==
    /\ work_pc = "store_work"
    /\ tx_work_id' = next_work_id
    /\ registry' = store_work(registry, next_work_id, tx_work.val, FALSE)
    /\ next_work_id' = following_id(next_work_id)
    /\ work_pc' = work_tx_next(work_pc)
    /\ UNCHANGED <<tx_fifo, tx_last, tx_sent, init_stored, tx_work, generated,
                   rx_count, rx_last, valid, errors, forwarded, resent, counter_core, not_wvars>>

\* work_tx_task: tx_fifo.send_work(&work, work_id)
SendWork ==
    /\ work_pc = "send_work"
    /\ tx_fifo' = tx_fifo + 1
    /\ tx_last' = Some([work |-> tx_work.val, work_id |-> tx_work_id])
    /\ tx_sent' = tx_sent + 1
    /\ work_pc' = work_tx_next(work_pc)
    /\ UNCHANGED <<registry, next_work_id, init_stored, tx_work, tx_work_id,
                   generated, rx_count, rx_last, valid, errors, forwarded,
                   resent, counter_core, not_wvars>>

\* wait_for_room or send_work returns Err: `.expect(..)` panics
TxIoError ==
    /\ work_pc \in {"init_wait_for_room", "init_send_work", "wait_for_room",
                    "send_work"}
    /\ work_pc' = "panicked"
    /\ UNCHANGED <<registry, next_work_id, tx_fifo, tx_last, tx_sent,
                   init_stored, tx_work, tx_work_id, generated, rx_count,
                   rx_last, valid, errors, forwarded, resent, counter_core, not_wvars>>

(***************************************************************************)
(* solution_rx_task, one turn of its loop: recv_solution, find_work under  *)
(* the registry lock, insert_solution, the counters and solution_sender    *)
(***************************************************************************)
RecvSolution ==
    /\ work_pc \in {"wait_for_room", "generate", "store_work", "send_work",
                    "returned"}
    /\ rx_count < MaxSolutions
    /\ rx_count' = rx_count + 1
    /\ \E solution \in HwSolutions :
          LET work == find_work(registry, solution.work_id)
              inserted == insert_status(work.val, solution)
              forward == forward_solution(inserted)
              unique_solution ==
                  [work |-> work.val.work,
                   work_id |-> solution.work_id,
                   midstate_idx |-> solution.midstate_idx,
                   nonce |-> solution.nonce]
          IN  /\ rx_last' = Some(solution)
              /\ IF ~work.some \/ ignore_solution(work.val)
                 THEN UNCHANGED <<registry, valid, errors, forwarded, resent,
                                  counter_core>>
                 ELSE /\ registry' =
                            [registry EXCEPT ![solution.work_id] =
                                Some(insert_solution(work.val, solution))]
                      /\ valid' = IF forward /\ solution.meets
                                  THEN valid + 1 ELSE valid
                      /\ errors' = errors
                            + (IF forward /\ ~solution.meets THEN 1 ELSE 0)
                            + (IF inserted.duplicate THEN 1 ELSE 0)
                            + (IF inserted.mismatched_nonce THEN 1 ELSE 0)
                      /\ counter_core' =
                            IF forward \/ inserted.duplicate
                                       \/ inserted.mismatched_nonce
                            THEN Some(CoreAddress(solution.nonce))
                            ELSE counter_core
                      /\ forwarded' =
                            IF forward
                            THEN forwarded \cup {unique_solution}
                            ELSE forwarded
                      /\ resent' =
                            IF forward /\ unique_solution \in forwarded
                            THEN resent \cup {unique_solution}
                            ELSE resent
    /\ UNCHANGED <<next_work_id, tx_fifo, tx_last, tx_sent, init_stored,
                   work_pc, tx_work, tx_work_id, generated, not_wvars>>

NextWork ==
    \/ InitWorkOrNot
    \/ InitStoreWork
    \/ InitWaitForRoom
    \/ InitSendWork
    \/ HwTakesWork
    \/ WaitForRoom
    \/ Generate
    \/ StoreWork
    \/ SendWork
    \/ TxIoError
    \/ RecvSolution

SpecWork == InitWork /\ [][NextWork]_vars

(***************************************************************************)
(* C19: work_tx_task submits a work item to the TX FIFO only after it has  *)
(* stored it in the registry, under the work_id the registry gave it; it   *)
(* pulls from the generator only when the FIFO has reported room; and once *)
(* the generator has yielded None the task has returned and sends nothing. *)
(***************************************************************************)
C19_StoreThenSend ==
    [][/\ (work_pc = "send_work" /\ tx_sent' # tx_sent)
            => LET sent == tx_last'.val
                   stored == find_work(registry, sent.work_id)
               IN  /\ stored.some
                   /\ stored.val.work = sent.work
                   /\ ~stored.val.initial_work
                   /\ sent.work_id = tx_work_id
                   /\ registry' = registry
       /\ (work_pc = "generate" /\ work_pc' # "generate")
            => tx_fifo < FifoCap
       /\ generated' # generated
            => work_pc = "generate" /\ tx_fifo < FifoCap
       /\ (work_pc = "generate" /\ work_pc' = "returned")
            => tx_sent' = tx_sent /\ tx_fifo' = tx_fifo
       /\ work_pc = "returned"
            => /\ work_pc' = "returned"
               /\ tx_sent' = tx_sent
               /\ tx_fifo' <= tx_fifo]_vars

\* the task has sent generated work and returned on None
C19_Witness ==
    /\ work_pc = "returned"
    /\ generated > 1
    /\ tx_last.some
    /\ tx_last.val.work = Job(generated)

(***************************************************************************)
(* C20: a solution whose work_id has no entry in the registry, or whose    *)
(* entry is initial work, is dropped: nothing is sent to the               *)
(* SolutionSender and neither counter changes; send_init_work stores and   *)
(* sends NUM_CORES_ON_CHIP work items, each stored as initial work.        *)
(***************************************************************************)
C20_InitialWorkDropped ==
    [][/\ rx_count' # rx_count
            => LET work_item == find_work(registry, rx_last'.val.work_id)
               IN  (~work_item.some \/ work_item.val.initial_work)
                      => /\ forwarded' = forwarded
                         /\ valid' = valid
                         /\ errors' = errors
                         /\ registry' = registry
       /\ init_stored' # init_stored
            => /\ registry'[tx_work_id'].some
               /\ registry'[tx_work_id'].val.initial_work
       /\ (work_pc = "init_send_work" /\ tx_sent' # tx_sent)
            => /\ registry[tx_last'.val.work_id].some
               /\ registry[tx_last'.val.work_id].val.initial_work
       /\ (work_pc = "init_send_work" /\ work_pc' = "wait_for_room")
            => /\ init_stored = NUM_CORES_ON_CHIP
               /\ tx_sent' = NUM_CORES_ON_CHIP]_vars

\* a solution of initial work has been received and dropped
C20_Witness ==
    /\ init_stored = NUM_CORES_ON_CHIP
    /\ rx_count > 0
    /\ rx_last.some
    /\ find_work(registry, rx_last.val.work_id).some
    /\ find_work(registry, rx_last.val.work_id).val.initial_work
    /\ forwarded = {}
    /\ valid = 0
    /\ errors = 0

(***************************************************************************)
(* C21: a solution received for non-initial work is forwarded to the       *)
(* SolutionSender exactly when insert_solution reports a unique solution   *)
(* that is no duplicate; a forwarded solution counts as valid when its     *)
(* hash meets the target and as an error otherwise; a duplicate or a       *)
(* mismatched nonce counts as an error of the solution's core and is not   *)
(* forwarded.                                                              *)
(***************************************************************************)
C21_ForwardUnique ==
    [][rx_count' # rx_count =>
         LET solution == rx_last'.val
             work_item == find_work(registry, solution.work_id)
             reported == insert_status(work_item.val, solution)
             sent == forwarded' # forwarded \/ resent' # resent
             core == Some(CoreAddress(solution.nonce))
         IN  (work_item.some /\ ~work_item.val.initial_work) =>
                /\ sent <=> (reported.unique_solution /\ ~reported.duplicate)
                /\ sent =>
                      /\ \E f \in forwarded' :
                            /\ f.work = work_item.val.work
                            /\ f.work_id = solution.work_id
                            /\ f.midstate_idx = solution.midstate_idx
                            /\ f.nonce = solution.nonce
                      /\ counter_core' = core
                      /\ IF solution.meets
                         THEN valid' = valid + 1 /\ errors' = errors
                         ELSE valid' = valid /\ errors' = errors + 1
                /\ (reported.duplicate \/ reported.mismatched_nonce) =>
                      /\ ~sent
                      /\ counter_core' = core
                      /\ valid' = valid
                      /\ errors' = errors + 1]_vars

\* one solution was forwarded as valid, its duplicate was counted as an error
C21_Witness ==
    /\ rx_count = 2
    /\ Cardinality(forwarded) = 1
    /\ resent = {}
    /\ valid = 1
    /\ errors = 1
    /\ \E f \in forwarded :
          /\ rx_last.val.work_id = f.work_id
          /\ rx_last.val.nonce = f.nonce
          /\ rx_last.val.midstate_idx = f.midstate_idx

(***************************************************************************)
(* C22: under every interleaving of stores and solution arrivals, also     *)
(* when the work_id wraps around, a (work_id, midstate_idx, nonce) triple  *)
(* is forwarded to the SolutionSender at most once.                        *)
(***************************************************************************)
C22_TripleOnce ==
    /\ resent = {}
    /\ \A f, g \in forwarded :
          (/\ f.work_id = g.work_id
           /\ f.midstate_idx = g.midstate_idx
           /\ f.nonce = g.nonce) => f = g

(***************************************************************************)
(* C22, amended: for every work item stored in the registry, a solution    *)
(* (work, work_id, midstate_idx, nonce) is forwarded at most once.         *)
(***************************************************************************)
C22_OncePerWork == resent = {}

\* the work_id has wrapped around: the same triple was forwarded for two
\* work items
C22_Witness ==
    /\ resent = {}
    /\ \E f, g \in forwarded :
          /\ f.work_id = g.work_id
          /\ f.midstate_idx = g.midstate_idx
          /\ f.nonce = g.nonce
          /\ f.work # g.work

(***************************************************************************)
(* HashChain::start (bosminer-am1-s9/src/hashchain.rs): the three clients  *)
(* spawned on the chain's halt context, and the halt of that context       *)
(***************************************************************************)

\* the statements of each task and the statements that may follow them
ClientSteps ==
    [c \in Clients |->
        IF c = "work-tx"
        THEN {<<"wait_for_room", "generate">>,
              <<"generate", "store_work">>,
              <<"generate", "returned">>,
              <<"store_work", "send_work">>,
              <<"send_work", "wait_for_room">>}
        ELSE IF c = "work-rx"
        THEN {<<"recv_solution", "lock_registry">>,
              <<"lock_registry", "insert_solution">>,
              <<"insert_solution", "recv_solution">>}
        ELSE {<<"settle_delay", "probe_sensor">>,
              <<"probe_sensor", "read_temperature">>,
              <<"probe_sensor", "no_sensor_delay">>,
              <<"read_temperature", "check_temperature">>,
              <<"check_temperature", "reread_delay">>,
              <<"reread_delay", "read_temperature">>,
              <<"check_temperature", "no_sensor_delay">>,
              <<"check_temperature", "update_delay">>,
              <<"update_delay", "read_temperature">>,
              <<"no_sensor_delay", "no_sensor_heartbeat">>,
              <<"no_sensor_heartbeat", "no_sensor_delay">>}]

\* the first statement of each task
ClientStart ==
    [c \in Clients |->
        IF c = "work-tx" THEN "wait_for_room"
        ELSE IF c = "work-rx" THEN "recv_solution"
        ELSE "settle_delay"]

\* mutated: the solution receiver is spawned outside the halt context
HaltClientsButRx == {"work-tx", "temperature monitor"}

\* the tasks spawned with register_client(..).spawn(..)
HaltClients == {"work-tx", "work-rx", "temperature monitor"}

\* the statements at which a task is suspended in an `.await`
AwaitPoints ==
    {"wait_for_room", "generate", "store_work", "recv_solution",
     "lock_registry", "settle_delay", "probe_sensor",
     "read_temperature", "reread_delay", "update_delay", "no_sensor_delay"}

\* a task that no longer runs
Ended == {"returned", "stopped"}

InitHalt ==
    /\ IdleDecide /\ IdleChain /\ IdleMonitor /\ IdleManager /\ IdlePreheat
    /\ IdleInit /\ IdlePll /\ IdleWork /\ IdleWatchdog /\ IdleAggregate
    /\ IdleUtils
    /\ client_pc = [c \in Clients |-> "not spawned"]
    /\ chain_halt = "none"

\* HashChain::start: register_client(..).spawn(..) for the three tasks
HashChainStart ==
    /\ \A c \in Clients : client_pc[c] = "not spawned"
    /\ client_pc' = ClientStart
    /\ UNCHANGED <<chain_halt, not_hvars>>

\* a task goes on: what it awaited has come (FIFO room, work, the registry
\* lock, a solution, a timer, an I2C reply)
ClientAwaited(c) ==
    /\ client_pc[c] \in AwaitPoints
    /\ chain_halt = "none"
    /\ \E step \in ClientSteps[c] :
          /\ step[1] = client_pc[c]
          /\ client_pc' = [client_pc EXCEPT ![c] = step[2]]
    /\ UNCHANGED <<chain_halt, not_hvars>>

\* a task runs from one `.await` to the next
ClientRuns(c) ==
    /\ client_pc[c] \notin AwaitPoints
    /\ \E step \in ClientSteps[c] :
          /\ step[1] = client_pc[c]
          /\ client_pc' = [client_pc EXCEPT ![c] = step[2]]
    /\ UNCHANGED <<chain_halt, not_hvars>>

\* halt_sender.send_halt() on the started chain
ChainSendHalt ==
    /\ chain_halt = "none"
    /\ \A c \in Clients : client_pc[c] # "not spawned"
    /\ chain_halt' = "sent"
    /\ UNCHANGED <<client_pc, not_hvars>>

\* a spawned task that is suspended when the halt is broadcast is dropped
ClientHalted(c) ==
    /\ chain_halt = "sent"
    /\ c \in HaltClients
    /\ client_pc[c] \in AwaitPoints
    /\ client_pc' = [client_pc EXCEPT ![c] = "stopped"]
    /\ UNCHANGED <<chain_halt, not_hvars>>

\* send_halt returns: every client has ended
ChainHaltDone ==
    /\ chain_halt = "sent"
    /\ \A c \in Clients : client_pc[c] \in Ended
    /\ chain_halt' = "done"
    /\ UNCHANGED <<client_pc, not_hvars>>

NextHalt ==
    \/ HashChainStart
    \/ \E c \in Clients : ClientAwaited(c)
    \/ \E c \in Clients : ClientRuns(c)
    \/ ChainSendHalt
    \/ \E c \in Clients : ClientHalted(c)
    \/ ChainHaltDone

\* the executor runs every task that can run; what a task awaits from the
\* hardware or the generator need never come
SpecHalt ==
    /\ InitHalt
    /\ [][NextHalt]_vars
    /\ \A c \in Clients : WF_vars(ClientRuns(c))
    /\ \A c \in Clients : WF_vars(ClientHalted(c))
    /\ WF_vars(ChainHaltDone)

MAX_TEMP_REREAD_ATTEMPTS == 3
MAX_SUDDEN_TEMPERATURE_JUMP == 12
MAX_SENSOR_ERRORS == 10
TEMP_UPDATE_INTERVAL == 5000
SENSOR_SETTLE_DELAY == 5000
REREAD_DELAY == 200
ERROR_ONE == 10000
MaxTicks == 3

\* sensor::Measurement, beside Ok(t)
NotPresent == [tag |-> "NotPresent"]
OpenCircuit == [tag |-> "OpenCircuit"]
InvalidReading == [tag |-> "InvalidReading"]

\* sensor::Temperature
SensorTemperature(local, remote) == [local |-> local, remote |-> remote]

INVALID_TEMPERATURE_READING == SensorTemperature(InvalidReading, InvalidReading)

\* what the sensor answers to one read
SensorReadings ==
    {SensorTemperature(l, r) :
        l \in {Ok(40), Ok(60), InvalidReading},
        r \in {Ok(45), NotPresent, OpenCircuit}}

\* Option<f32> from a Measurement
measurement_into(m) == IF m.tag = "Ok" THEN Some(m.t) ELSE None

max_temp(t) ==
    LET local == measurement_into(t.local)
        remote == measurement_into(t.remote)
    IN  IF local.some
        THEN IF remote.some
             THEN Some(IF local.val >= remote.val THEN local.val ELSE remote.val)
             ELSE local
        ELSE remote

\* the remote measurement counts as a sensor error
remote_error(temp) ==
    temp.remote.tag \in {"OpenCircuit", "ShortCircuit", "InvalidReading"}

\* mutated: the jump filter does not look at try_again
sudden_jump_untried(tries, max_t, old_max_t) ==
    /\ max_t.some
    /\ old_max_t.some
    /\ \/ max_t.val - old_max_t.val >= MAX_SUDDEN_TEMPERATURE_JUMP
       \/ old_max_t.val - max_t.val >= MAX_SUDDEN_TEMPERATURE_JUMP

\* "Check for weird temperatures": the reading is to be read again
sudden_jump(tries, max_t, old_max_t) ==
    /\ tries > 0
    /\ max_t.some
    /\ old_max_t.some
    /\ \/ max_t.val - old_max_t.val >= MAX_SUDDEN_TEMPERATURE_JUMP
       \/ old_max_t.val - max_t.val >= MAX_SUDDEN_TEMPERATURE_JUMP

\* error_counter *= 0.9995
decay_error(counter) == (counter * (ERROR_ONE - 5)) \div ERROR_ONE

\* mutated: after a heartbeat the task always goes to the sensor loop
after_heartbeat_sensor(pc) == "update_delay"

\* the delay that follows a heartbeat, in either loop
after_heartbeat(pc) ==
    IF pc = "no_sensor_send" THEN "no_sensor_delay" ELSE "update_delay"

\* the statements of no_sensor_task
NoSensor == {"no_sensor_delay", "no_sensor_send"}

\* the statements at which the watchdog is suspended
WatchdogAwaits ==
    {"settle_delay", "probe", "read", "reread_delay", "update_delay",
     "no_sensor_delay"}

InitWatchdog ==
    /\ IdleDecide /\ IdleChain /\ IdleMonitor /\ IdleManager /\ IdlePreheat
    /\ IdleInit /\ IdlePll /\ IdleWork /\ IdleHalt /\ IdleAggregate
    /\ IdleUtils
    /\ wd_pc = "settle_delay"
    /\ last_max_temp = None
    /\ try_again = 0
    /\ error_counter = 0
    /\ tick_reads = 0
    /\ ticks = 0
    /\ waited = 0
    /\ sent_now = None

\* delay_for(Duration::from_secs(5)) before the probe
WatchdogSettle ==
    /\ wd_pc = "settle_delay"
    /\ wd_pc' = "probe"
    /\ waited' = waited + SENSOR_SETTLE_DELAY
    /\ sent_now' = None
    /\ UNCHANGED <<last_max_temp, try_again, error_counter, tick_reads, ticks,
                   not_tvars>>

\* try_to_initialize_sensor: the sensor loop with its locals, or no_sensor_task
WatchdogProbe ==
    /\ wd_pc = "probe"
    /\ \E probed \in BOOLEAN :
          /\ wd_pc' = IF probed THEN "read" ELSE "no_sensor_delay"
          /\ try_again' = IF probed THEN MAX_TEMP_REREAD_ATTEMPTS ELSE try_again
    /\ last_max_temp' = None
    /\ error_counter' = 0
    /\ waited' = 0
    /\ sent_now' = None
    /\ UNCHANGED <<tick_reads, ticks, not_tvars>>

\* one pass of the watchdog loop from read_temperature to the next delay
ReadTemperature ==
    /\ wd_pc = "read"
    /\ ticks < MaxTicks
    /\ \E temp \in SensorReadings \cup {INVALID_TEMPERATURE_READING} :
          LET counted == IF remote_error(temp)
                         THEN error_counter + ERROR_ONE
                         ELSE error_counter
              max_t == max_temp(temp)
          IN  /\ tick_reads' = tick_reads + 1
              /\ IF sudden_jump(try_again, max_t, last_max_temp)
                 THEN /\ error_counter' = counted + ERROR_ONE
                      /\ try_again' = try_again - 1
                      /\ wd_pc' = "reread_delay"
                      /\ sent_now' = None
                      /\ UNCHANGED <<last_max_temp, ticks, waited>>
                 ELSE IF counted >= MAX_SENSOR_ERRORS * ERROR_ONE
                 THEN /\ error_counter' = counted
                      /\ wd_pc' = "no_sensor_delay"
                      /\ waited' = 0
                      /\ sent_now' = None
                      /\ UNCHANGED <<last_max_temp, try_again, ticks>>
                 ELSE /\ error_counter' = decay_error(counted)
                      /\ last_max_temp' =
                            IF max_t.some THEN max_t ELSE last_max_temp
                      /\ try_again' = MAX_TEMP_REREAD_ATTEMPTS
                      /\ sent_now' = Some(temp)
                      /\ ticks' = ticks + 1
                      /\ waited' = 0
                      /\ wd_pc' = after_heartbeat(wd_pc)
    /\ UNCHANGED not_tvars

\* delay_for(Duration::from_millis(200)) before reading again
RereadDelay ==
    /\ wd_pc = "reread_delay"
    /\ wd_pc' = "read"
    /\ waited' = waited + REREAD_DELAY
    /\ sent_now' = None
    /\ UNCHANGED <<last_max_temp, try_again, error_counter, tick_reads, ticks,
                   not_tvars>>

\* delay_for(TEMP_UPDATE_INTERVAL) at the end of the watchdog loop
UpdateDelay ==
    /\ wd_pc = "update_delay"
    /\ wd_pc' = "read"
    /\ waited' = waited + TEMP_UPDATE_INTERVAL
    /\ tick_reads' = 0
    /\ sent_now' = None
    /\ UNCHANGED <<last_max_temp, try_again, error_counter, ticks, not_tvars>>

\* no_sensor_task: delay_for(TEMP_UPDATE_INTERVAL)
NoSensorDelay ==
    /\ wd_pc = "no_sensor_delay"
    /\ wd_pc' = "no_sensor_send"
    /\ waited' = waited + TEMP_UPDATE_INTERVAL
    /\ sent_now' = None
    /\ UNCHANGED <<last_max_temp, try_again, error_counter, tick_reads, ticks,
                   not_tvars>>

\* no_sensor_task: the heartbeat with the invalid reading
NoSensorSend ==
    /\ wd_pc = "no_sensor_send"
    /\ sent_now' = Some(INVALID_TEMPERATURE_READING)
    /\ waited' = 0
    /\ wd_pc' = after_heartbeat(wd_pc)
    /\ UNCHANGED <<last_max_temp, try_again, error_counter, tick_reads, ticks,
                   not_tvars>>

\* the chain is halted: the suspended task is dropped
WatchdogHalted ==
    /\ wd_pc \in WatchdogAwaits
    /\ wd_pc' = "stopped"
    /\ sent_now' = None
    /\ UNCHANGED <<last_max_temp, try_again, error_counter, tick_reads, ticks,
                   waited, not_tvars>>

NextWatchdog ==
    \/ WatchdogSettle
    \/ WatchdogProbe
    \/ ReadTemperature
    \/ RereadDelay
    \/ UpdateDelay
    \/ NoSensorDelay
    \/ NoSensorSend
    \/ WatchdogHalted

\* timers fire and a task that can run does run; the halt need not come
SpecWatchdog ==
    /\ InitWatchdog
    /\ [][NextWatchdog]_vars
    /\ WF_vars(WatchdogSettle)
    /\ WF_vars(RereadDelay)
    /\ WF_vars(UpdateDelay)
    /\ WF_vars(NoSensorDelay)
    /\ WF_vars(NoSensorSend)

(***************************************************************************)
(* C24: once the watchdog is in the sensor-less loop it never reads the    *)
(* sensor again and never returns to the sensor loop; every heartbeat it   *)
(* sends is Running with the invalid (unknown) temperature, sent after a   *)
(* delay of TEMP_UPDATE_INTERVAL, and it keeps sending them until halted.  *)
(***************************************************************************)
C24_SensorLess ==
    /\ [][(wd_pc \in NoSensor) =>
            (/\ wd_pc' \in NoSensor \cup {"stopped"}
             /\ tick_reads' = tick_reads
             /\ error_counter' = error_counter
             /\ sent_now'.some =>
                   (/\ sent_now' = Some(INVALID_TEMPERATURE_READING)
                    /\ waited = TEMP_UPDATE_INTERVAL))]_vars
    /\ (wd_pc \in NoSensor)
          ~> (wd_pc = "stopped" \/ sent_now = Some(INVALID_TEMPERATURE_READING))

\* the sensor was disabled for its errors and the sensor-less heartbeat sent
C24_Witness ==
    /\ wd_pc = "no_sensor_delay"
    /\ error_counter >= MAX_SENSOR_ERRORS * ERROR_ONE
    /\ sent_now = Some(INVALID_TEMPERATURE_READING)

(***************************************************************************)
(* C25 (as stated): between two heartbeats the sensor is read at most      *)
(* MAX_TEMP_REREAD_ATTEMPTS (3) times, and after the last allowed read the *)
(* reading is accepted and the heartbeat sent.                             *)
(***************************************************************************)
C25_ThreeReads ==
    /\ [](tick_reads <= MAX_TEMP_REREAD_ATTEMPTS)
    /\ [][(wd_pc = "read" /\ wd_pc' # "stopped"
             /\ tick_reads = MAX_TEMP_REREAD_ATTEMPTS - 1)
            => sent_now'.some]_vars

(***************************************************************************)
(* C25 (amended): between two heartbeats the sensor is read at most        *)
(* 1 + MAX_TEMP_REREAD_ATTEMPTS (4) times, even when every reading jumps;  *)
(* the reading after MAX_TEMP_REREAD_ATTEMPTS re-reads is not read again:  *)
(* it is sent with the heartbeat, unless error_counter has reached         *)
(* MAX_SENSOR_ERRORS, when the task enters the sensor-less loop.           *)
(***************************************************************************)
C25_FourReads ==
    /\ [](tick_reads <= 1 + MAX_TEMP_REREAD_ATTEMPTS)
    /\ [][(wd_pc = "read" /\ wd_pc' # "stopped"
             /\ tick_reads = MAX_TEMP_REREAD_ATTEMPTS)
            => (\/ (/\ sent_now'.some
                    /\ try_again' = MAX_TEMP_REREAD_ATTEMPTS
                    /\ wd_pc' = "update_delay")
                \/ (/\ error_counter' >= MAX_SENSOR_ERRORS * ERROR_ONE
                    /\ wd_pc' = "no_sensor_delay"
                    /\ ~sent_now'.some))]_vars

\* the fourth reading of a tick, after three jumps, went out with the heartbeat
C25_Witness ==
    /\ wd_pc = "update_delay"
    /\ tick_reads = 1 + MAX_TEMP_REREAD_ATTEMPTS
    /\ sent_now.some

(***************************************************************************)
(* C26: decide returns Nothing if and only if fan_config is absent and the *)
(* dangerous-temperature rule does not fire; with fan_config present the   *)
(* decision is one of Shutdown, UseFixedSpeed, UsePid.                     *)
(***************************************************************************)
C26_NothingIffNoFanControl ==
    d_result.some =>
        LET decision == d_result.val.decision
            dangerous ==
                /\ d_config.temp_config.some
                /\ d_temp.tag = "Ok"
                /\ d_temp.t >= d_config.temp_config.val.dangerous_temp
        IN  /\ decision = Nothing <=> (~d_config.fan_config.some /\ ~dangerous)
            /\ d_config.fan_config.some =>
                  decision.kind \in {"Shutdown", "UseFixedSpeed", "UsePid"}

\* decide was called without fan control, below the dangerous temperature
C26_Witness ==
    /\ d_result.some
    /\ ~d_config.fan_config.some
    /\ d_config.temp_config.some
    /\ d_temp = Ok(99)
    /\ d_result.val.decision = Nothing

(***************************************************************************)
(* C27: with mode TargetTemperature(T), temp_config present, at least      *)
(* min_fans fans running and the temperature not dangerous, decide returns *)
(* UseFixedSpeed(FULL_SPEED) for Unknown and for Ok(t) with t >= hot_temp, *)
(* and UsePid{target_temp = T, input_temp = t} for t < hot_temp.           *)
(***************************************************************************)
C27_TargetTemperature ==
    (/\ d_result.some
     /\ d_config.fan_config.some
     /\ d_config.temp_config.some)
    => LET fan_config == d_config.fan_config.val
           temp_config == d_config.temp_config.val
           decision == d_result.val.decision
       IN  (/\ fan_config.mode.kind = "TargetTemperature"
            /\ d_fans >= fan_config.min_fans
            /\ (d_temp.tag = "Ok" => d_temp.t < temp_config.dangerous_temp))
           => IF d_temp.tag = "Ok" /\ d_temp.t < temp_config.hot_temp
              THEN decision = UsePid(fan_config.mode.target, d_temp.t)
              ELSE decision = UseFixedSpeed(FULL_SPEED)

\* decide was called in target mode with the temperature at hot_temp
C27_Witness ==
    /\ d_result.some
    /\ d_config.fan_config.some
    /\ d_config.temp_config.some
    /\ d_config.fan_config.val.mode.kind = "TargetTemperature"
    /\ d_fans >= d_config.fan_config.val.min_fans
    /\ d_temp = Ok(d_config.temp_config.val.hot_temp)
    /\ d_result.val.decision = UseFixedSpeed(FULL_SPEED)

(***************************************************************************)
(* C28: with mode FixedSpeed(p), at least min_fans fans running, and no    *)
(* temp_config or a known temperature below dangerous_temp, decide returns *)
(* UseFixedSpeed(p), also at or above hot_temp.                            *)
(***************************************************************************)
C28_FixedSpeed ==
    (d_result.some /\ d_config.fan_config.some)
    => LET fan_config == d_config.fan_config.val
       IN  (/\ fan_config.mode.kind = "FixedSpeed"
            /\ d_fans >= fan_config.min_fans
            /\ \/ ~d_config.temp_config.some
               \/ /\ d_temp.tag = "Ok"
                  /\ d_temp.t < d_config.temp_config.val.dangerous_temp)
           => d_result.val.decision = UseFixedSpeed(fan_config.mode.speed)

\* decide was called in fixed-speed mode between hot_temp and dangerous_temp
C28_Witness ==
    /\ d_result.some
    /\ d_config.fan_config.some
    /\ d_config.temp_config.some
    /\ d_config.fan_config.val.mode = FixedSpeed(50)
    /\ d_fans >= d_config.fan_config.val.min_fans
    /\ d_temp = Ok(95)
    /\ d_result.val.decision = UseFixedSpeed(50)

(***************************************************************************)
(* C29 (as stated): every monitor control tick ends by publishing a Status *)
(* whose input_temperature is the temperature aggregated in that tick,     *)
(* whose decision_explained is that tick's decision and whose fan_speed is *)
(* the last fan speed the monitor set.                                     *)
(***************************************************************************)
C29_EveryTickPublishes ==
    [][(tick_pc = "chains" /\ tick_pc' # "chains")
        => (/\ status'.some
            /\ status'.val.input_temperature = temperature
            /\ status'.val.decision_explained =
                  decide(inner_config, status'.val.fan_feedback, temperature)
            /\ status'.val.fan_speed = current_fan_speed')]_vars

(***************************************************************************)
(* C29 (amended): a control tick that does not declare the shutdown ends   *)
(* by publishing one Status with that tick's aggregated temperature, that  *)
(* tick's decision and the last fan speed set; a tick that declares the    *)
(* shutdown (a broken chain, or the decision Shutdown) publishes nothing,  *)
(* and nothing else publishes a Status.                                    *)
(***************************************************************************)
C29_PublishUnlessShutdown ==
    [][/\ (tick_pc = "chains" /\ tick_pc' = "delay")
            => (/\ status'.some
                /\ status'.val.input_temperature = temperature
                /\ status'.val.decision_explained =
                      decide(inner_config, status'.val.fan_feedback,
                             temperature)
                /\ status'.val.decision_explained.decision # Shutdown
                /\ status'.val.fan_speed = current_fan_speed'
                /\ status'.val.config = inner_config)
       /\ (tick_pc = "chains" /\ tick_pc' \notin {"chains", "delay"})
            => (/\ tick_pc' = "send_halt"
                /\ failure_state'
                /\ halt_sent'
                /\ status' = status)
       /\ status' # status => (tick_pc = "chains" /\ tick_pc' = "delay")]_vars

\* a tick over a running chain has published its snapshot with the PID speed
C29_Witness ==
    /\ tick_pc = "delay"
    /\ Len(chains) > 0
    /\ status.some
    /\ status.val.input_temperature = Ok(50)
    /\ status.val.decision_explained.decision.kind = "UsePid"
    /\ status.val.fan_speed = current_fan_speed
    /\ current_fan_speed.some

(***************************************************************************)
(* Monitor::do_tick, the loop over inner.chains (monitor.rs:534-567), run  *)
(* over every sequence of chain states: tick, get_temperature and the fold *)
(* with Temperature::max, up to the call of decide                         *)
(***************************************************************************)
MaxAggChains == 3

AggTemperatures == {Unknown, Ok(50), Ok(79), Ok(150)}

AggStates ==
    {Off, On(0), Broken("bad state transition")}
        \cup {Running(0, 0, t) : t \in AggTemperatures}

RECURSIVE AggSequences(_)
AggSequences(n) ==
    IF n = 0 THEN {<<>>}
    ELSE AggSequences(n - 1)
            \cup {Append(q, c) : q \in AggSequences(n - 1), c \in AggStates}

InitAggregate ==
    /\ IdleDecide /\ IdleChain /\ IdleMonitor /\ IdleManager /\ IdlePreheat
    /\ IdleInit /\ IdlePll /\ IdleWork /\ IdleHalt /\ IdleWatchdog
    /\ IdleUtils
    /\ agg_chains \in AggSequences(MaxAggChains)
    /\ agg_now \in {0, RUN_UPDATE_TIMEOUT}
    /\ agg_i = 1
    /\ agg_temperature = Unknown
    /\ agg_seen = <<>>
    /\ agg_fed = None

\* one round of the loop: tick, the Broken test, max with get_temperature
AggregateChain ==
    /\ ~agg_fed.some
    /\ agg_i >= 1
    /\ agg_i <= Len(agg_chains)
    /\ LET state == tick(agg_chains[agg_i], agg_now)
       IN  /\ agg_chains' = [agg_chains EXCEPT ![agg_i] = state]
           /\ IF chain_is_broken(state)
              THEN /\ agg_i' = 0
                   /\ UNCHANGED <<agg_temperature, agg_seen>>
              ELSE /\ agg_temperature' =
                         temperature_max(agg_temperature,
                                         get_temperature(state))
                   /\ agg_seen' = Append(agg_seen, get_temperature(state))
                   /\ agg_i' = agg_i + 1
    /\ UNCHANGED <<agg_now, agg_fed, not_avars>>

\* after the loop: ControlDecision::decide(&inner.config, .., temperature)
AggregateDecide ==
    /\ ~agg_fed.some
    /\ agg_i > Len(agg_chains)
    /\ agg_fed' = Some(agg_temperature)
    /\ UNCHANGED <<agg_chains, agg_now, agg_i, agg_temperature, agg_seen,
                   not_avars>>

NextAggregate == AggregateChain \/ AggregateDecide

SpecAggregate == InitAggregate /\ [][NextAggregate]_vars

(***************************************************************************)
(* C30: the temperature fed to decide in a tick is the maximum over the    *)
(* registered chains of the chain's temperature; Temperature::max is       *)
(* commutative and associative with Unknown as identity; a chain that is   *)
(* not Running contributes Unknown; the aggregate is Unknown exactly when  *)
(* no Running chain reports an Ok temperature.                             *)
(***************************************************************************)
C30_AggregateIsMax ==
    LET temps == {get_temperature(agg_chains[i]) : i \in 1..Len(agg_chains)}
        running == {i \in 1..Len(agg_chains) : agg_chains[i].tag = "Running"}
    IN  /\ \A a, b \in temps \cup {Unknown, agg_temperature} :
              /\ temperature_max(a, b) = temperature_max(b, a)
              /\ temperature_max(a, Unknown) = a
              /\ temperature_max(Unknown, a) = a
              /\ \A c \in temps :
                    temperature_max(temperature_max(a, b), c)
                       = temperature_max(a, temperature_max(b, c))
        /\ \A i \in 1..Len(agg_seen) :
              agg_seen[i] = IF i \in running
                            THEN agg_chains[i].temp_obj ELSE Unknown
        /\ agg_fed.some =>
              /\ Len(agg_seen) = Len(agg_chains)
              /\ agg_fed.val = Unknown
                    <=> ~\E i \in running : agg_chains[i].temp_obj.tag = "Ok"
              /\ agg_fed.val.tag = "Ok" =>
                    /\ \E i \in running : agg_chains[i].temp_obj = agg_fed.val
                    /\ \A i \in running :
                          agg_chains[i].temp_obj.tag = "Ok"
                             => agg_chains[i].temp_obj.t <= agg_fed.val.t

\* decide is fed Ok(79): the maximum of the running chains, past a chain that
\* is not running and one that reports Unknown
C30_Witness ==
    /\ agg_fed = Some(Ok(79))
    /\ Len(agg_chains) = 3
    /\ agg_seen = <<Unknown, Ok(79), Ok(50)>>
    /\ agg_chains[1].tag = "Off"

(***************************************************************************)
(* C31: in every tick whose decision is UsePid the PID limits are set      *)
(* before pid.update is called: warm-up limits exactly when                *)
(* fans_on_while_warming_up is true and some chain was warming up at that  *)
(* tick, normal limits otherwise; the speed set is one update returns      *)
(* under those limits.                                                     *)
(***************************************************************************)
C31_PidLimits ==
    [][/\ (tick_pc = "chains" /\ tick_i' = tick_i + 1)
            => miner_warming_up' =
                  (miner_warming_up \/ is_warming_up(chains'[tick_i], clock))
       /\ (/\ tick_pc = "chains"
           /\ tick_pc' = "delay"
           /\ status'.val.decision_explained.decision.kind = "UsePid")
            => (/\ pid_limits' = "warm_up"
                      <=> (inner_config.fans_on_while_warming_up
                              /\ miner_warming_up)
                /\ pid_limits' = "normal"
                      <=> ~(inner_config.fans_on_while_warming_up
                               /\ miner_warming_up)
                /\ current_fan_speed'.some
                /\ current_fan_speed'.val \in pid_update(pid_limits'))
       /\ pid_limits' # pid_limits
            => (/\ tick_pc = "chains"
                /\ tick_pc' = "delay"
                /\ status'.val.decision_explained.decision.kind = "UsePid")
      ]_vars

\* a PID tick over a warming-up chain with fans_on_while_warming_up false
C31_Witness ==
    /\ tick_pc = "delay"
    /\ ~inner_config.fans_on_while_warming_up
    /\ status.some
    /\ status.val.decision_explained.decision.kind = "UsePid"
    /\ pid_limits = "normal"
    /\ clock = 0
    /\ \E i \in 1..Len(chains) : chains[i].tag = "Running"

(***************************************************************************)
(* utils::calc_baud_clock_div (bosminer-antminer/src/utils.rs): usize      *)
(* arithmetic; a subtraction below zero panics (overflow checks on) or     *)
(* wraps to usize::MAX, and then `baud_div + 1` wraps to 0 and the         *)
(* division by `base_clock_div * 0` panics                                 *)
(***************************************************************************)
MAX_BAUD_RATE_ERR_PERC == 5
CHIP_OSC_CLK_HZ == 25000000
MaxBaudInput == 24

BaudOk(baud_div, actual_baud_rate) ==
    [tag |-> "Ok", baud_div |-> baud_div,
     actual_baud_rate |-> actual_baud_rate]
BaudErr == [tag |-> "Err", kind |-> "BaudRate"]
BaudPanic == [tag |-> "Panic"]

\* mutated: the divisor is truncated, not rounded
calc_baud_clock_div_truncated(baud, base_hz, base_div) ==
    LET quotient == (10 * base_hz) \div (base_div * baud)
    IN  IF quotient \div 10 = 0 THEN BaudPanic
        ELSE LET baud_div == quotient \div 10 - 1
                 actual_baud_rate == base_hz \div (base_div * (baud_div + 1))
                 baud_rate_diff ==
                     IF actual_baud_rate > baud
                     THEN actual_baud_rate - baud
                     ELSE baud - actual_baud_rate
             IN  IF baud_rate_diff > (MAX_BAUD_RATE_ERR_PERC * baud) \div 100
                 THEN BaudErr
                 ELSE BaudOk(baud_div, actual_baud_rate)

calc_baud_clock_div(baud, base_hz, base_div) ==
    LET rounded == ((10 * base_hz) \div (base_div * baud) + 5) \div 10
    IN  IF rounded = 0 THEN BaudPanic
        ELSE LET baud_div == rounded - 1
                 actual_baud_rate == base_hz \div (base_div * (baud_div + 1))
                 baud_rate_diff ==
                     IF actual_baud_rate > baud
                     THEN actual_baud_rate - baud
                     ELSE baud - actual_baud_rate
             IN  IF baud_rate_diff > (MAX_BAUD_RATE_ERR_PERC * baud) \div 100
                 THEN BaudErr
                 ELSE BaudOk(baud_div, actual_baud_rate)

\* the baud rates of the chip: those of the tests, and one above the clock
ChipBaudRates == {115200, 460800, 1500000, 3000000, 3500000, 7000000}

InitBaud ==
    /\ IdleOlder /\ IdleSummary /\ IdleI2c /\ IdleLocks
    /\ \/ /\ baud_rate \in ChipBaudRates
          /\ base_clock_hz = CHIP_OSC_CLK_HZ
          /\ base_clock_div = 8    \* bm1387::CHIP_OSC_CLK_BASE_BAUD_DIV
       \/ /\ baud_rate \in 1..MaxBaudInput
          /\ base_clock_hz \in 1..MaxBaudInput
          /\ base_clock_div \in 1..3
    /\ baud_result = None

CalcBaudClockDiv ==
    /\ ~baud_result.some
    /\ baud_result' =
          Some(calc_baud_clock_div(baud_rate, base_clock_hz, base_clock_div))
    /\ UNCHANGED <<baud_rate, base_clock_hz, base_clock_div, not_bvars>>

NextBaud == CalcBaudClockDiv

SpecBaud == InitBaud /\ [][NextBaud]_vars

\* the rounded quotient of the clock by the baud rate, as a rational test:
\* base / (div * baud) >= 1/2
BaudInRange == 2 * base_clock_hz >= base_clock_div * baud_rate

\* what the claim says the call returns
BaudAsClaimed ==
    LET div == ((10 * base_clock_hz) \div (base_clock_div * baud_rate) + 5)
                  \div 10 - 1
        actual == base_clock_hz \div (base_clock_div * (div + 1))
        diff == IF actual > baud_rate THEN actual - baud_rate
                ELSE baud_rate - actual
    IN  baud_result.val = IF diff <= (5 * baud_rate) \div 100
                          THEN BaudOk(div, actual)
                          ELSE BaudErr

\* the divisors of the chip's baud rates
BaudSamples ==
    (base_clock_hz = CHIP_OSC_CLK_HZ /\ base_clock_div = 8) =>
        /\ baud_rate = 115200 =>
              baud_result.val.tag = "Ok" /\ baud_result.val.baud_div = 26
        /\ baud_rate = 460800 =>
              baud_result.val.tag = "Ok" /\ baud_result.val.baud_div = 6
        /\ baud_rate = 1500000 =>
              baud_result.val.tag = "Ok" /\ baud_result.val.baud_div = 1
        /\ baud_rate = 3000000 =>
              baud_result.val.tag = "Ok" /\ baud_result.val.baud_div = 0
        /\ baud_rate = 3500000 => baud_result.val = BaudErr

(***************************************************************************)
(* C32 (as stated): for every (baud_rate, base_clock_hz, base_clock_div)   *)
(* the call computes div = (10*base/(base_div*baud) + 5)/10 - 1 and        *)
(* actual = base/(base_div*(div+1)) and returns Ok((div, actual)) exactly  *)
(* when |actual - baud| <= 5*baud/100, a BaudRate error otherwise; 25 MHz  *)
(* with divisor 8 gives 115200 -> 26, 460800 -> 6, 1500000 -> 1,           *)
(* 3000000 -> 0 and an error for 3500000.                                  *)
(***************************************************************************)
C32_BaudDivEveryInput ==
    baud_result.some =>
        /\ baud_result.val.tag \in {"Ok", "Err"}
        /\ BaudAsClaimed
        /\ BaudSamples

(***************************************************************************)
(* C32 on the inputs whose rounded quotient (10*base/(base_div*baud)+5)/10 *)
(* is at least 1: there the call returns what the claim says; for the      *)
(* others the subtraction of 1 goes below zero and the call panics.        *)
(***************************************************************************)
C32_BaudDiv ==
    baud_result.some =>
        LET rounded ==
                ((10 * base_clock_hz) \div (base_clock_div * baud_rate) + 5)
                    \div 10
        IN  /\ rounded >= 1 => (BaudAsClaimed /\ BaudSamples)
            /\ rounded = 0 => baud_result.val = BaudPanic

\* the call returned the divisor 6 for 460800 baud
C32_Witness ==
    /\ baud_result = Some(BaudOk(6, 446428))
    /\ baud_rate = 460800
    /\ base_clock_hz = CHIP_OSC_CLK_HZ

(***************************************************************************)
(* C40: for every baud_rate >= 1 with positive base clock and divisor the  *)
(* call ends in Ok or in a BaudRate error: the unsigned computation never  *)
(* goes below zero, also for baud rates far above the base clock.          *)
(***************************************************************************)
C40_NoUnderflow ==
    (/\ baud_result.some
     /\ baud_rate >= 1
     /\ base_clock_hz > 0
     /\ base_clock_div > 0)
    => baud_result.val.tag \in {"Ok", "Err"}

(***************************************************************************)
(* temperature::Hashboard (bosminer-am1-s9/src/temperature.rs)             *)
(***************************************************************************)
REMOTE_TEMPERATURE_OFFSET_ESTIMATE == 15
MaxBoardTemp == 25

\* sensor::SensorResult
Valid(temp) == [tag |-> "Valid", temp |-> temp]
NotValid ==
    {[tag |-> t] : t \in {"NotInitialized", "ReadFailed", "Broken",
                          "NotPresent"}}

\* ii_hwmon::Value of one channel
BoardValues ==
    {Ok(t) : t \in 0..MaxBoardTemp}
        \cup {NotPresent, OpenCircuit, InvalidReading}

Hashboards ==
    {Valid(SensorTemperature(l, r)) : l \in BoardValues, r \in BoardValues}
        \cup NotValid

Max(a, b) == IF a >= b THEN a ELSE b

\* mutated: the estimate of the chip temperature is the board temperature
summary_temperature_no_offset(board) ==
    IF board.tag = "Valid"
    THEN IF board.temp.remote.tag = "Ok"
         THEN IF board.temp.local.tag = "Ok"
              THEN Ok(Max(board.temp.remote.t, board.temp.local.t))
              ELSE Ok(board.temp.remote.t)
         ELSE IF board.temp.local.tag = "Ok"
              THEN Ok(board.temp.local.t)
              ELSE Unknown
    ELSE Unknown

summary_temperature(board) ==
    IF board.tag = "Valid"
    THEN IF board.temp.remote.tag = "Ok"
         THEN IF board.temp.local.tag = "Ok"
              THEN Ok(Max(board.temp.remote.t, board.temp.local.t))
              ELSE Ok(board.temp.remote.t)
         ELSE IF board.temp.local.tag = "Ok"
              THEN Ok(board.temp.local.t + REMOTE_TEMPERATURE_OFFSET_ESTIMATE)
              ELSE Unknown
    ELSE Unknown

InitSummary ==
    /\ IdleOlder /\ IdleBaud /\ IdleI2c /\ IdleLocks
    /\ hashboard \in Hashboards
    /\ summary = None

SummaryTemperature ==
    /\ ~summary.some
    /\ summary' = Some(summary_temperature(hashboard))
    /\ UNCHANGED <<hashboard, not_svars>>

NextSummary == SummaryTemperature

SpecSummary == InitSummary /\ [][NextSummary]_vars

(***************************************************************************)
(* C33: Hashboard::summary_temperature of a valid reading is the larger of *)
(* local and remote when both are Ok, the remote one when only the remote  *)
(* is Ok, the local one plus 15 when the remote is not Ok and the local    *)
(* is, and Unknown when neither is; of a sensor result that is not Valid   *)
(* it is Unknown.                                                          *)
(***************************************************************************)
C33_SummaryTemperature ==
    summary.some =>
        /\ hashboard.tag # "Valid" => summary.val = Unknown
        /\ hashboard.tag = "Valid" =>
              LET local == hashboard.temp.local
                  remote == hashboard.temp.remote
              IN  /\ (local.tag = "Ok" /\ remote.tag = "Ok") =>
                        /\ summary.val.tag = "Ok"
                        /\ summary.val.t >= local.t
                        /\ summary.val.t >= remote.t
                        /\ summary.val.t \in {local.t, remote.t}
                  /\ (local.tag # "Ok" /\ remote.tag = "Ok") =>
                        summary.val = Ok(remote.t)
                  /\ (local.tag = "Ok" /\ remote.tag # "Ok") =>
                        summary.val = Ok(local.t + 15)
                  /\ (local.tag # "Ok" /\ remote.tag # "Ok") =>
                        summary.val = Unknown

\* a board at 10 degrees with an open chip sensor was summarised as 25
C33_Witness ==
    /\ hashboard = Valid(SensorTemperature(Ok(10), OpenCircuit))
    /\ summary = Some(Ok(25))

(***************************************************************************)
(* linux-async-i2c: AsyncI2cDev forwards requests of async tasks over an   *)
(* unbounded channel to serve_requests, which runs in a thread of its own  *)
(* and answers each request on the request's oneshot channel               *)
(***************************************************************************)
RequestKinds == {"Read", "Write", "ResetI2cController"}

Request(id, kind, task) == [id |-> id, kind |-> kind, task |-> task]

\* mutated: the newest request is taken
request_rx_next_newest(queue) == Len(queue)

\* request_rx.next(): the position of the request that is taken
request_rx_next(queue) == 1

Without(queue, i) ==
    [j \in 1..(Len(queue) - 1) |-> IF j < i THEN queue[j] ELSE queue[j + 1]]

InitI2c ==
    /\ IdleOlder /\ IdleBaud /\ IdleSummary /\ IdleLocks
    /\ i2c_request_tx = TRUE
    /\ i2c_request_rx = <<>>
    /\ i2c_pc = "next"
    /\ i2c_request = None
    /\ i2c_bus = <<>>
    /\ i2c_reply_rx = [id \in I2cIds |-> "none"]
    /\ i2c_reply_sent = [id \in I2cIds |-> 0]
    /\ i2c_task = [t \in I2cTasks |-> "idle"]
    /\ i2c_sent = 0

\* AsyncI2cDev::read, write, reset_i2c_controller up to `reply_rx.await`;
\* unbounded_send fails when serve_requests is gone and the expect panics
I2cSend(t, kind) ==
    /\ i2c_request_tx
    /\ i2c_task[t] = "idle"
    /\ i2c_sent < MaxI2cRequests
    /\ IF i2c_pc \in {"exit", "panicked"}
       THEN /\ i2c_task' = [i2c_task EXCEPT ![t] = "panicked"]
            /\ UNCHANGED <<i2c_request_rx, i2c_reply_rx, i2c_sent>>
       ELSE /\ i2c_sent' = i2c_sent + 1
            /\ i2c_request_rx' =
                  Append(i2c_request_rx, Request(i2c_sent', kind, t))
            /\ i2c_reply_rx' = [i2c_reply_rx EXCEPT ![i2c_sent'] = "waiting"]
            /\ i2c_task' = [i2c_task EXCEPT ![t] = "waiting"]
    /\ UNCHANGED <<i2c_request_tx, i2c_pc, i2c_request, i2c_bus,
                   i2c_reply_sent, not_xvars>>

\* the future of a request is dropped while it awaits the reply
I2cRequesterGone(t) ==
    /\ i2c_task[t] = "waiting"
    /\ \E id \in I2cIds :
          /\ i2c_reply_rx[id] = "waiting"
          /\ \/ \E i \in 1..Len(i2c_request_rx) :
                   i2c_request_rx[i] = Request(id, i2c_request_rx[i].kind, t)
             \/ /\ i2c_request.some
                /\ i2c_request.val.id = id
                /\ i2c_request.val.task = t
          /\ i2c_reply_rx' = [i2c_reply_rx EXCEPT ![id] = "dropped"]
    /\ i2c_task' = [i2c_task EXCEPT ![t] = "idle"]
    /\ UNCHANGED <<i2c_request_tx, i2c_request_rx, i2c_pc, i2c_request,
                   i2c_bus, i2c_reply_sent, i2c_sent, not_xvars>>

\* the last clone of AsyncI2cDev is dropped
I2cDrop ==
    /\ i2c_request_tx
    /\ \A t \in I2cTasks : i2c_task[t] # "waiting"
    /\ i2c_request_tx' = FALSE
    /\ UNCHANGED <<i2c_request_rx, i2c_pc, i2c_request, i2c_bus,
                   i2c_reply_rx, i2c_reply_sent, i2c_task, i2c_sent,
                   not_xvars>>

\* reply.send(result): to the requester when its receiver is alive
reply_send(request) ==
    /\ i2c_reply_sent' =
          [i2c_reply_sent EXCEPT ![request.id] = i2c_reply_sent[request.id] + 1]
    /\ IF i2c_reply_rx[request.id] = "waiting"
       THEN /\ i2c_reply_rx' = [i2c_reply_rx EXCEPT ![request.id] = "received"]
            /\ i2c_task' = [i2c_task EXCEPT ![request.task] = "idle"]
       ELSE UNCHANGED <<i2c_reply_rx, i2c_task>>

\* `while let Some(request) = block_on(request_rx.next())`
ServeNext ==
    /\ i2c_pc = "next"
    /\ IF i2c_request_rx # <<>>
       THEN LET i == request_rx_next(i2c_request_rx)
            IN  /\ i2c_request' = Some(i2c_request_rx[i])
                /\ i2c_request_rx' = Without(i2c_request_rx, i)
                /\ i2c_pc' = "match"
       ELSE /\ ~i2c_request_tx
            /\ i2c_pc' = "exit"
            /\ UNCHANGED <<i2c_request, i2c_request_rx>>
    /\ UNCHANGED <<i2c_request_tx, i2c_bus, i2c_reply_rx, i2c_reply_sent,
                   i2c_task, i2c_sent, not_xvars>>

\* Request::Read and Request::Write: the transfer, then the reply
ServeTransfer ==
    /\ i2c_pc = "match"
    /\ i2c_request.val.kind \in {"Read", "Write"}
    /\ i2c_bus' = Append(i2c_bus, [id |-> i2c_request.val.id,
                                   op |-> i2c_request.val.kind])
    /\ reply_send(i2c_request.val)
    /\ i2c_request' = None
    /\ i2c_pc' = "next"
    /\ UNCHANGED <<i2c_request_tx, i2c_request_rx, i2c_sent, not_xvars>>

\* Request::ResetI2cController: drop(i2c_device); i2c_reset(true); sleep
ServeResetEnable ==
    /\ i2c_pc = "match"
    /\ i2c_request.val.kind = "ResetI2cController"
    /\ i2c_bus' = Append(i2c_bus, [id |-> i2c_request.val.id,
                                   op |-> "reset_enable"])
    /\ i2c_pc' = "reset_enabled"
    /\ UNCHANGED <<i2c_request_tx, i2c_request_rx, i2c_request, i2c_reply_rx,
                   i2c_reply_sent, i2c_task, i2c_sent, not_xvars>>

\* i2c_reset(false); sleep
ServeResetDisable ==
    /\ i2c_pc = "reset_enabled"
    /\ i2c_bus' = Append(i2c_bus, [id |-> i2c_request.val.id,
                                   op |-> "reset_disable"])
    /\ i2c_pc' = "reset_disabled"
    /\ UNCHANGED <<i2c_request_tx, i2c_request_rx, i2c_request, i2c_reply_rx,
                   i2c_reply_sent, i2c_task, i2c_sent, not_xvars>>

\* I2cdev::new(&path).expect(..), then the reply; when the device cannot
\* be opened the thread panics and the receiver and the replies are dropped
ServeReopen ==
    /\ i2c_pc = "reset_disabled"
    /\ \/ /\ i2c_bus' = Append(i2c_bus, [id |-> i2c_request.val.id,
                                         op |-> "open"])
          /\ reply_send(i2c_request.val)
          /\ i2c_request' = None
          /\ i2c_pc' = "next"
          /\ UNCHANGED i2c_request_rx
       \/ /\ i2c_pc' = "panicked"
          /\ i2c_request_rx' = <<>>
          /\ i2c_reply_rx' =
                [id \in I2cIds |->
                    IF i2c_reply_rx[id] = "waiting" THEN "canceled"
                    ELSE i2c_reply_rx[id]]
          /\ i2c_task' =
                [t \in I2cTasks |->
                    IF i2c_task[t] = "waiting" THEN "panicked"
                    ELSE i2c_task[t]]
          /\ UNCHANGED <<i2c_request, i2c_bus, i2c_reply_sent>>
    /\ UNCHANGED <<i2c_request_tx, i2c_sent, not_xvars>>

NextI2c ==
    \/ \E t \in I2cTasks, kind \in RequestKinds : I2cSend(t, kind)
    \/ \E t \in I2cTasks : I2cRequesterGone(t)
    \/ I2cDrop
    \/ ServeNext
    \/ ServeTransfer
    \/ ServeResetEnable
    \/ ServeResetDisable
    \/ ServeReopen

SpecI2c == InitI2c /\ [][NextI2c]_vars

\* the requests whose execution serve_requests has finished
I2cServed ==
    {id \in 1..i2c_sent :
        /\ \A i \in 1..Len(i2c_request_rx) : i2c_request_rx[i].id # id
        /\ ~(i2c_request.some /\ i2c_request.val.id = id)
        /\ i2c_pc # "panicked" \/ \E i \in 1..Len(i2c_bus) : i2c_bus[i].id = id}

(***************************************************************************)
(* C34: the requests (read, write, controller reset) that concurrent tasks *)
(* give to AsyncI2cDev are executed by the one serve_requests thread one   *)
(* at a time in the order they were enqueued, with nothing else on the     *)
(* controller during a reset; each executed request produces exactly one   *)
(* reply to its requester; a requester that is gone before the reply does  *)
(* not stop the thread.                                                    *)
(***************************************************************************)
C34_SerializedRequests ==
    /\ [](/\ \A i, j \in 1..Len(i2c_bus) :
                i < j => i2c_bus[i].id <= i2c_bus[j].id
          /\ \A i \in 1..Len(i2c_bus) :
                i2c_bus[i].op = "reset_enable" =>
                    /\ (i + 1 <= Len(i2c_bus)) =>
                          i2c_bus[i + 1] = [id |-> i2c_bus[i].id,
                                            op |-> "reset_disable"]
                    /\ (i + 2 <= Len(i2c_bus)) =>
                          i2c_bus[i + 2] = [id |-> i2c_bus[i].id,
                                            op |-> "open"]
          /\ \A id \in I2cIds :
                i2c_reply_sent[id] = IF id \in I2cServed THEN 1 ELSE 0
          /\ \A id \in I2cIds :
                i2c_reply_rx[id] = "received" => i2c_reply_sent[id] = 1)
    /\ [][(\E id \in I2cIds :
              /\ i2c_reply_sent'[id] > i2c_reply_sent[id]
              /\ i2c_reply_rx[id] = "dropped")
          => (i2c_pc' = "next" /\ i2c_request_rx' = i2c_request_rx)]_vars

\* a reply found its requester gone and the thread has served the next
\* request since, while a third one was enqueued behind a reset
C34_Witness ==
    /\ i2c_reply_rx[1] = "dropped"
    /\ i2c_reply_sent[1] = 1
    /\ i2c_reply_rx[2] = "received"
    /\ i2c_pc = "reset_enabled"
    /\ i2c_request.val.id = 3
    /\ Len(i2c_bus) = 3

(***************************************************************************)
(* C35: the messages on the chain's monitor channel form (On Running*      *)
(* Off)*: On is sent only at the start of a start attempt, on a channel    *)
(* whose last message is none or Off, and Off only after On or Running, by *)
(* the task whose halt of that chain has completed; so the monitor never   *)
(* marks the chain Broken for a bad state transition.                      *)
(***************************************************************************)
C35_OnRunningOff ==
    [][\A t \in Tasks :
         /\ (mgr_pc[t] = "attempt_lock" /\ mgr_pc'[t] # "attempt_lock")
               => /\ monitor_tx \in {None, Some(MsgOff)}
                  /\ monitor_tx' = Some(MsgOn)
         /\ (mgr_pc[t] \in {"fail_off", "stop_off"} /\ mgr_pc'[t] # mgr_pc[t])
               => /\ monitor_tx.some
                  /\ monitor_tx.val.kind \in {"On", "Running"}
                  /\ mgr_chain[t].val.halted
                  /\ monitor_tx' = Some(MsgOff)]_vars

(***************************************************************************)
(* C36: the assertion of attempt_start_chain that inner.hash_chain is None *)
(* holds in every reachable state, for any acquire, start, stop and drop   *)
(* of leases by any number of owners.                                      *)
(***************************************************************************)
C36_AssertionHolds ==
    \A p \in Owners :
        /\ mgr_result[p] #
              [op |-> "panic",
               message |-> "assertion failed: inner.hash_chain.is_none()"]
        /\ (mgr_pc[p] = "attempt_lock" /\ manager_lock = "free")
              => hash_chain = None

(***************************************************************************)
(* C37: whenever a RunningChain lease is alive, inner.hash_chain is        *)
(* present, so that stop and the accessors never hit the panics            *)
(* "hashchain is missing" and "not running", also when the calls           *)
(* interleave with Manager::termination_handler.                           *)
(***************************************************************************)
C37_RunningLeaseHasChain ==
    \A p \in Owners :
        /\ (lease[p] = "Running" /\ mgr_pc[p] \in {"idle", "stop_lock"})
              => hash_chain.some
        /\ mgr_result[p] #
              [op |-> "panic", message |-> "BUG: hashchain is missing"]

(***************************************************************************)
(* C38: once Manager::termination_handler has run, the hashchain is not    *)
(* running and stays so: no attempt_start_chain starts a chain afterwards, *)
(* also when the retry loop of StoppedChain::start was in progress.        *)
(***************************************************************************)
C38_StoppedForGood ==
    mgr_pc[Handler] = "done" =>
        /\ hash_chain = None
        /\ \A p \in Owners : mgr_pc[p] \notin {"init", "start_ok"}

(***************************************************************************)
(* The locks of the monitor (bosminer-antminer/src/monitor.rs): the tokio  *)
(* mutexes Monitor.inner and one per Chain, taken by tick_task, by the     *)
(* recv_task of each chain and by termination_handler.  What the tasks     *)
(* compute under the locks is left open; each lock().await and each        *)
(* release of a guard is a step                                            *)
(***************************************************************************)
InitLocks ==
    /\ IdleOlder /\ IdleBaud /\ IdleSummary /\ IdleI2c
    /\ mon_inner = "free"
    /\ mon_chain = [i \in LockChains |-> "free"]
    /\ mon_tick_pc = "lock"
    /\ mon_tick_i = 1
    /\ mon_recv_pc = [i \in LockChains |-> "next"]
    /\ mon_term_pc = "wait_for_halt"
    /\ mon_halt = FALSE

\* mutated: shutdown keeps the guard of inner
drop_inner_kept(holder) == holder

\* Monitor::shutdown: drop(inner)
drop_inner(holder) == "free"

\* recv_task: `while let Some(message) = rx.next().await` has a message
RecvNext(i) ==
    /\ mon_recv_pc[i] = "next"
    /\ mon_recv_pc' = [mon_recv_pc EXCEPT ![i] = "lock"]
    /\ UNCHANGED <<mon_inner, mon_chain, mon_tick_pc, mon_tick_i,
                   mon_term_pc, mon_halt, not_kvars>>

\* recv_task: chain.lock().await
RecvLock(i) ==
    /\ mon_recv_pc[i] = "lock"
    /\ mon_chain[i] = "free"
    /\ mon_chain' = [mon_chain EXCEPT ![i] = "recv"]
    /\ mon_recv_pc' = [mon_recv_pc EXCEPT ![i] = "locked"]
    /\ UNCHANGED <<mon_inner, mon_tick_pc, mon_tick_i, mon_term_pc, mon_halt,
                   not_kvars>>

\* recv_task: chain.state.transition(..) and the end of the loop body
RecvTransition(i) ==
    /\ mon_recv_pc[i] = "locked"
    /\ mon_chain' = [mon_chain EXCEPT ![i] = "free"]
    /\ mon_recv_pc' = [mon_recv_pc EXCEPT ![i] = "next"]
    /\ UNCHANGED <<mon_inner, mon_tick_pc, mon_tick_i, mon_term_pc, mon_halt,
                   not_kvars>>

\* tick_task: delay_for(TICK_LENGTH) is over
DoTickWake ==
    /\ mon_tick_pc = "delay"
    /\ ~mon_halt
    /\ mon_tick_pc' = "lock"
    /\ UNCHANGED <<mon_inner, mon_chain, mon_tick_i, mon_recv_pc,
                   mon_term_pc, mon_halt, not_kvars>>

\* do_tick: self.inner.lock().await
DoTickInner ==
    /\ mon_tick_pc = "lock"
    /\ mon_inner = "free"
    /\ mon_inner' = "tick"
    /\ mon_tick_i' = 1
    /\ mon_tick_pc' = "chain_lock"
    /\ UNCHANGED <<mon_chain, mon_recv_pc, mon_term_pc, mon_halt,
                   not_kvars>>

\* do_tick: chain.lock().await in the loop over inner.chains
DoTickChainLock ==
    /\ mon_tick_pc = "chain_lock"
    /\ mon_chain[mon_tick_i] = "free"
    /\ mon_chain' = [mon_chain EXCEPT ![mon_tick_i] = "tick"]
    /\ mon_tick_pc' = "chain"
    /\ UNCHANGED <<mon_inner, mon_tick_i, mon_recv_pc, mon_term_pc,
                   mon_halt, not_kvars>>

\* Monitor::shutdown, called with the guard of inner, up to send_halt
shutdown_locks ==
    /\ mon_inner' = drop_inner(mon_inner)
    /\ mon_halt' = TRUE
    /\ mon_tick_pc' = "send_halt"

\* do_tick: the body of the loop; the chain's guard is dropped at its end,
\* and before shutdown when the chain is broken
DoTickChain ==
    /\ mon_tick_pc = "chain"
    /\ mon_chain' = [mon_chain EXCEPT ![mon_tick_i] = "free"]
    /\ \/ /\ shutdown_locks
          /\ UNCHANGED mon_tick_i
       \/ /\ mon_tick_i' = mon_tick_i + 1
          /\ mon_tick_pc' =
                IF mon_tick_i < MaxLockChains THEN "chain_lock" ELSE "decide"
          /\ UNCHANGED <<mon_inner, mon_halt>>
    /\ UNCHANGED <<mon_recv_pc, mon_term_pc, not_kvars>>

\* do_tick after the loop: shutdown, or the broadcast and the return
DoTickDecide ==
    /\ mon_tick_pc = "decide"
    /\ \/ shutdown_locks
       \/ /\ mon_inner' = "free"
          /\ mon_tick_pc' = "delay"
          /\ UNCHANGED mon_halt
    /\ mon_tick_i' = 1
    /\ UNCHANGED <<mon_chain, mon_recv_pc, mon_term_pc, not_kvars>>

\* the places where tick_task is suspended
TickSuspended ==
    \/ mon_tick_pc \in {"delay", "send_halt"}
    \/ mon_tick_pc = "lock" /\ mon_inner # "free"
    \/ mon_tick_pc = "chain_lock" /\ mon_chain[mon_tick_i] # "free"

\* halt: tick_task, spawned as a client of the halt, is dropped where it
\* is suspended; the guards it holds are dropped with it
DoTickDropped ==
    /\ mon_halt
    /\ TickSuspended
    /\ mon_tick_pc' = "exited"
    /\ mon_inner' = IF mon_inner = "tick" THEN "free" ELSE mon_inner
    /\ mon_tick_i' = 1
    /\ UNCHANGED <<mon_chain, mon_recv_pc, mon_term_pc, mon_halt,
                   not_kvars>>

\* the miner halt is sent from outside the monitor
LocksHalt ==
    /\ ~mon_halt
    /\ mon_halt' = TRUE
    /\ UNCHANGED <<mon_inner, mon_chain, mon_tick_pc, mon_tick_i,
                   mon_recv_pc, mon_term_pc, not_kvars>>

\* termination_handler: self.inner.lock().await
TermLock ==
    /\ mon_halt
    /\ mon_term_pc = "wait_for_halt"
    /\ mon_inner = "free"
    /\ mon_inner' = "handler"
    /\ mon_term_pc' = "locked"
    /\ UNCHANGED <<mon_chain, mon_tick_pc, mon_tick_i, mon_recv_pc,
                   mon_halt, not_kvars>>

\* termination_handler: set_fan_speed and the return
TermSetFanSpeed ==
    /\ mon_term_pc = "locked"
    /\ mon_inner' = "free"
    /\ mon_term_pc' = "done"
    /\ UNCHANGED <<mon_chain, mon_tick_pc, mon_tick_i, mon_recv_pc,
                   mon_halt, not_kvars>>

NextLocks ==
    \/ \E i \in LockChains : RecvNext(i)
    \/ \E i \in LockChains : RecvLock(i)
    \/ \E i \in LockChains : RecvTransition(i)
    \/ DoTickWake
    \/ DoTickInner
    \/ DoTickChainLock
    \/ DoTickChain
    \/ DoTickDecide
    \/ DoTickDropped
    \/ LocksHalt
    \/ TermLock
    \/ TermSetFanSpeed

\* a message arrives or not; the tasks are scheduled, a delay ends, and a tokio mutex serves its
\* waiters in the order they came: who waits for a lock that is released
\* again and again gets it
SpecLocks ==
    /\ InitLocks
    /\ [][NextLocks]_vars
    /\ \A i \in LockChains : SF_vars(RecvLock(i))
    /\ \A i \in LockChains : WF_vars(RecvTransition(i))
    /\ WF_vars(DoTickWake)
    /\ SF_vars(DoTickInner)
    /\ SF_vars(DoTickChainLock)
    /\ WF_vars(DoTickChain)
    /\ WF_vars(DoTickDecide)
    /\ WF_vars(DoTickDropped)
    /\ SF_vars(TermLock)
    /\ WF_vars(TermSetFanSpeed)

\* who holds which lock
LockDiscipline ==
    /\ \A i \in LockChains :
          /\ mon_chain[i] = "tick" =>
                /\ mon_inner = "tick"
                /\ mon_tick_pc = "chain"
                /\ mon_tick_i = i
          /\ mon_chain[i] = "recv" <=> mon_recv_pc[i] = "locked"
    /\ mon_inner = "tick" <=> mon_tick_pc \in {"chain_lock", "chain", "decide"}
    /\ mon_inner = "handler" <=> mon_term_pc = "locked"

====
